---- MODULE Spec2Model ----
(***************************************************************************)
(* A model of the meanderer maze library: the cell and grid data model    *)
(* (src/src/data/cell.rs, src/src/data/grid.rs), the generation           *)
(* algorithms (src/src/algorithms.rs) and the solver (src/src/solver.rs). *)
(*                                                                         *)
(* A Position is a record [row, col].  An Option<T> is a sequence of      *)
(* length 0 (None) or 1 (Some(x)).  A Vec is a sequence, a HashSet or     *)
(* BTreeSet is a set.  Every random draw (rng.choose, rng.gen_range,      *)
(* iteration order of a HashSet) is a nondeterministic choice.            *)
(***************************************************************************)
EXTENDS Integers, Sequences, FiniteSets

VARIABLES grid, pc, loc

vars == <<grid, pc, loc>>

(***************************************************************************)
(* Bounds of the model.                                                    *)
(***************************************************************************)
\* the largest number of cells of a grid the generation algorithms run on
MaxCells == 7
\* the largest number of link/unlink calls in a run of SpecLink
MaxOps == 2
\* true_prims draws each cell's cost from 0..MaxCost (0..99 in the code)
MaxCost == 1
\* the largest number of cells of a grid that true_prims, and growing_tree
\* with random_selection or mixed_selection, run on
MaxTreeCells == 5
\* the largest number of cells of a rectangular grid aldous_broder runs on
MaxWalkCells == 6
\* the largest number of cells of a grid the solver runs on, and the largest
\* number of dijkstra / solve calls in a run of SpecSolve
MaxSolveCells == 3
MaxCalls == 2

(***************************************************************************)
(* Helpers on sequences and options.                                       *)
(***************************************************************************)
None == <<>>

Some(x) == <<x>>

is_some(o) == Len(o) > 0

Range(s) == {s[i] : i \in 1..Len(s)}

(***************************************************************************)
(* src/src/data/pos.rs                                                     *)
(***************************************************************************)
Position_new(row, col) == [row |-> row, col |-> col]

\* derive(Ord) on Position: lexicographic on (row, col)
Position_lt(p, q) == p.row < q.row \/ (p.row = q.row /\ p.col < q.col)

(***************************************************************************)
(* src/src/data/cell.rs                                                    *)
(***************************************************************************)
Cell_new(row, col) ==
    [pos |-> Position_new(row, col), weight |-> 0, in_solution |-> FALSE,
     north |-> None, south |-> None, east |-> None, west |-> None,
     links |-> {}]

PolarCell_new(row, col) ==
    [pos |-> Position_new(row, col), weight |-> 0, in_solution |-> FALSE,
     ccw |-> None, cw |-> None, inward |-> None, outward |-> <<>>,
     links |-> {}]

\* MazeCell::link: self.links.insert(other)
Cell_link(cell, other) == [cell EXCEPT !.links = @ \cup {other}]

\* MazeCell::unlink: self.links.remove(other)
Cell_unlink(cell, other) == [cell EXCEPT !.links = @ \ {other}]

\* Cell::neighbors with the fields read clockwise: north, east, south, west
Cell_neighbors_clockwise(cell) == cell.north \o cell.east \o cell.south \o cell.west

\* Cell::neighbors: north, south, east, west, the present ones in that order
Cell_neighbors(cell) == cell.north \o cell.south \o cell.east \o cell.west

\* PolarCell::neighbors: ccw, cw, inward, then every outward
PolarCell_neighbors(cell) == cell.ccw \o cell.cw \o cell.inward \o cell.outward

(***************************************************************************)
(* src/src/data/grid.rs: construction                                      *)
(***************************************************************************)
\* Grid::new: row-major cells, each with its compass neighbors clipped at
\* the boundary
Grid_new(width, height) ==
    [kind |-> "rect", width |-> width, height |-> height,
     cells |->
        [i \in 1..(width * height) |->
            LET row == (i - 1) \div width
                col == (i - 1) % width
                new == Cell_new(row, col)
            IN [new EXCEPT
                  !.south = IF row < height - 1
                            THEN Some(Position_new(row + 1, col)) ELSE None,
                  !.north = IF row > 0
                            THEN Some(Position_new(row - 1, col)) ELSE None,
                  !.west = IF col > 0
                           THEN Some(Position_new(row, col - 1)) ELSE None,
                  !.east = IF col < width - 1
                           THEN Some(Position_new(row, col + 1)) ELSE None]]]

\* std::f32::consts::PI as a ratio (PiNum / PiDen)
PiNum == 3141593
PiDen == 1000000

\* (est_cell_width / row_height).round() with est_cell_width =
\* 2 * PI * (row / rows) / prev_cols and row_height = 1 / rows; the two
\* divisions by rows cancel, f32::round rounds half away from zero
PolarRatio(row, prev_cols) ==
    (2 * (2 * PiNum * row) + PiDen * prev_cols) \div (2 * PiDen * prev_cols)

\* the column_counts vector after _make_cells has pushed `n` rows (n >= 1)
RECURSIVE ColumnCounts(_)
ColumnCounts(n) ==
    IF n <= 1 THEN <<1>>
    ELSE LET prev == ColumnCounts(n - 1)
             prev_cols == prev[n - 1]
         IN Append(prev, PolarRatio(n - 1, prev_cols) * prev_cols)

\* the row_offsets vector after _make_cells has pushed `n` rows (n >= 1)
RECURSIVE RowOffsets(_)
RowOffsets(n) ==
    IF n <= 1 THEN <<0>>
    ELSE LET prev == RowOffsets(n - 1)
         IN Append(prev, prev[n - 1] + ColumnCounts(n - 1)[n - 1])

\* the cells pushed by _make_cells for rows 0..n-1, in push order
RECURSIVE PolarCells(_)
PolarCells(n) ==
    IF n <= 1 THEN <<PolarCell_new(0, 0)>>
    ELSE PolarCells(n - 1) \o
         [col1 \in 1..ColumnCounts(n)[n] |-> PolarCell_new(n - 1, col1 - 1)]

\* PolarGrid::_make_cells: ring 0 is pushed even when rows = 0
PolarGrid_make_cells(rows) ==
    LET n == IF rows < 1 THEN 1 ELSE rows
    IN [kind |-> "polar", rows |-> rows, cells |-> PolarCells(n),
        row_offsets |-> RowOffsets(n), column_counts |-> ColumnCounts(n)]

\* PolarGrid::contains
PolarGrid_contains(g, pos) ==
    pos.row < g.rows /\ pos.col < g.column_counts[pos.row + 1]

\* Grid::contains
Grid_contains(g, pos) == pos.row < g.height /\ pos.col < g.width

contains(g, pos) ==
    IF g.kind = "rect" THEN Grid_contains(g, pos) ELSE PolarGrid_contains(g, pos)

\* the index computed by get / get_mut (1-based here, 0-based in the code)
cell_idx(g, pos) ==
    IF g.kind = "rect" THEN pos.col + pos.row * g.width + 1
    ELSE pos.col + g.row_offsets[pos.row + 1] + 1

\* MazeGrid::get_mut as an index: 0 when it returns None
get_mut(g, pos) ==
    IF ~contains(g, pos) THEN 0
    ELSE IF cell_idx(g, pos) \in 1..Len(g.cells) THEN cell_idx(g, pos) ELSE 0

\* MazeGrid::get: an Option<&Cell>
get(g, pos) ==
    IF ~contains(g, pos) THEN None
    ELSE IF cell_idx(g, pos) \in 1..Len(g.cells)
         THEN Some(g.cells[cell_idx(g, pos)]) ELSE None

\* MazeGrid::cells as the sequence of the cells' positions
cells_pos(g) == [i \in 1..Len(g.cells) |-> g.cells[i].pos]

\* lines 260-262 without the division by ratio: the cell of the same
\* column in the ring before
PolarGrid_parent_pos_same_col(g, pos) == Position_new(pos.row - 1, pos.col)

\* _set_neighbors, lines 260-262: the parent of a cell at pos, pos.row > 0
PolarGrid_parent_pos(g, pos) ==
    LET num_cols == g.column_counts[pos.row + 1]
        ratio == num_cols \div g.column_counts[pos.row]
    IN Position_new(pos.row - 1, pos.col \div ratio)

\* _set_neighbors, lines 264-281: the iteration for cells[i] sets cw, ccw
\* and inward of the cell that get_mut finds at that cell's position
PolarGrid_set_neighbors_own(g, cell, i) ==
    LET pos == g.cells[i].pos
        num_cols == g.column_counts[pos.row + 1]
        cw_col == IF pos.col = num_cols - 1 THEN 0 ELSE pos.col + 1
        ccw_col == IF pos.col = 0 THEN num_cols - 1 ELSE pos.col - 1
    IN [cell EXCEPT !.cw = Some(Position_new(pos.row, cw_col)),
                    !.ccw = Some(Position_new(pos.row, ccw_col)),
                    !.inward = Some(PolarGrid_parent_pos(g, pos))]

\* _set_neighbors, lines 283-285: the positions pushed to the outward list
\* of cells[k], in the order of the iterations that push them
PolarGrid_pushed_outward(g, k) ==
    SelectSeq(cells_pos(g),
              LAMBDA pos : pos.row > 0 /\ get_mut(g, PolarGrid_parent_pos(g, pos)) = k)

\* PolarGrid::_set_neighbors: cells[k] after the loop over cells[0..n-1].
\* An iteration reads only positions, row_offsets and column_counts, which
\* no iteration changes, so each cell's fields are given by the iterations
\* that reach it.
PolarGrid_set_neighbors(g, n) ==
    [g EXCEPT !.cells =
        [k \in 1..Len(g.cells) |->
            LET own == {i \in 1..n : g.cells[i].pos.row > 0
                                      /\ get_mut(g, g.cells[i].pos) = k}
                c == IF own = {} THEN g.cells[k]
                     ELSE PolarGrid_set_neighbors_own(g, g.cells[k],
                              CHOOSE i \in own : \A j \in own : j <= i)
            IN [c EXCEPT !.outward = @ \o PolarGrid_pushed_outward(g, k)]]]

PolarGrid_new(rows) ==
    LET g == PolarGrid_make_cells(rows)
    IN PolarGrid_set_neighbors(g, Len(g.cells))

(***************************************************************************)
(* src/src/data/grid.rs: the MazeGrid trait                                *)
(***************************************************************************)

CellNeighbors(g, cell) ==
    IF g.kind = "rect" THEN Cell_neighbors(cell) ELSE PolarCell_neighbors(cell)

\* MazeGrid::neighbors
neighbors(g, pos) ==
    IF is_some(get(g, pos)) THEN CellNeighbors(g, get(g, pos)[1]) ELSE <<>>

\* MazeGrid::get_pos
get_pos(g, pos) ==
    IF is_some(get(g, pos)) THEN Some(get(g, pos)[1].pos) ELSE None

\* MazeGrid::has_links
has_links(g, pos) ==
    IF is_some(get(g, pos)) THEN get(g, pos)[1].links # {} ELSE FALSE

\* the links of the cell at pos (empty for a position outside the grid)
links_of(g, pos) ==
    IF is_some(get(g, pos)) THEN get(g, pos)[1].links ELSE {}

\* MazeGrid::link with both positions in the grid: the two unwraps succeed
link_oneway(g, pos, other) ==
    [g EXCEPT !.cells[get_mut(g, pos)] = Cell_link(@, other)]

link(g, pos, other) ==
    LET g1 == [g EXCEPT !.cells[get_mut(g, pos)] = Cell_link(@, other)]
    IN [g1 EXCEPT !.cells[get_mut(g1, other)] = Cell_link(@, pos)]

\* MazeGrid::unlink with both positions in the grid
unlink(g, pos, other) ==
    LET g1 == [g EXCEPT !.cells[get_mut(g, pos)] = Cell_unlink(@, other)]
    IN [g1 EXCEPT !.cells[get_mut(g1, other)] = Cell_unlink(@, pos)]

(***************************************************************************)
(* The grids of the model: every rectangular grid of 1 to MaxCells cells   *)
(* and every polar grid of at most MaxCells cells.                         *)
(***************************************************************************)
RECURSIVE SumSeq(_)
SumSeq(s) == IF s = <<>> THEN 0 ELSE Head(s) + SumSeq(Tail(s))

RectGrids ==
    {Grid_new(w, h) : <<w, h>> \in
        {d \in (1..MaxCells) \X (1..MaxCells) : d[1] * d[2] <= MaxCells}}

PolarGrids ==
    {PolarGrid_new(rows) : rows \in
        {r \in 0..MaxCells : r <= 1 \/ SumSeq(ColumnCounts(r)) <= MaxCells}}

Grids == RectGrids \cup PolarGrids

\* the positions of the grid's cells, and the positions get() answers for
CellSet(g) == Range(cells_pos(g))

Contained(g) == {p \in CellSet(g) : contains(g, p)}

\* the links as unordered pairs {a, b}, a # b, linked either way
LinkPairs(g) ==
    UNION {{{p, q} : q \in links_of(g, p) \ {p}} : p \in CellSet(g)}

(***************************************************************************)
(* SpecLink: any sequence of at most MaxOps link / unlink calls on         *)
(* positions contained in the grid.                                        *)
(***************************************************************************)
InitLink ==
    /\ grid \in Grids
    /\ pc = "idle"
    /\ loc = [ops |-> 0, last |-> "new"]

Link ==
    /\ pc = "idle"
    /\ loc.ops < MaxOps
    /\ \E a \in Contained(grid), b \in Contained(grid) :
          /\ grid' = link(grid, a, b)
          /\ loc' = [ops |-> loc.ops + 1, last |-> "link"]
    /\ UNCHANGED pc

Unlink ==
    /\ pc = "idle"
    /\ loc.ops < MaxOps
    /\ \E a \in Contained(grid), b \in Contained(grid) :
          /\ grid' = unlink(grid, a, b)
          /\ loc' = [ops |-> loc.ops + 1, last |-> "unlink"]
    /\ UNCHANGED pc

NextLink == Link \/ Unlink

SpecLink == InitLink /\ [][NextLink]_vars

\* C1: after any sequence of link and unlink calls on contained positions,
\* b is in links(a) if and only if a is in links(b), for all positions a, b
C1_LinkSymmetric ==
    \A a \in CellSet(grid), b \in CellSet(grid) :
        (b \in links_of(grid, a)) <=> (a \in links_of(grid, b))

\* a polar grid of more than one ring after a link and an unlink of another
\* pair, which left the link in place
C1_Witness ==
    /\ grid.kind = "polar"
    /\ Len(grid.cells) > 1
    /\ loc.last = "unlink"
    /\ LinkPairs(grid) # {}

(***************************************************************************)
(* Graph notions on the link graph, defined apart from the algorithms.     *)
(***************************************************************************)
\* the links set of every cell
LinksMap(g) == [p \in CellSet(g) |-> links_of(g, p)]

\* the positions reachable from the set S through the links L
RECURSIVE ReachIn(_, _)
ReachIn(L, S) ==
    LET T == S \cup UNION {L[p] : p \in S \cap DOMAIN L}
    IN IF T = S THEN S ELSE ReachIn(L, T)

\* the positions reachable from the set S through links
Reach(g, S) == ReachIn(LinksMap(g), S)

Connected(g) == Reach(g, {g.cells[1].pos}) = CellSet(g)

\* remove, again and again, every edge with an endpoint of degree 1: what
\* is left is empty exactly when the edge set has no cycle
RECURSIVE PruneLeaves(_)
PruneLeaves(E) ==
    LET deg(v) == Cardinality({e \in E : v \in e})
        leafy == {e \in E : \E v \in e : deg(v) = 1}
    IN IF leafy = {} THEN E ELSE PruneLeaves(E \ leafy)

NoCycle(L) ==
    /\ \A p \in DOMAIN L : p \notin L[p]
    /\ PruneLeaves(UNION {{{p, q} : q \in L[p] \ {p}} : p \in DOMAIN L}) = {}

Acyclic(g) == NoCycle(LinksMap(g))

IsSpanningTree(g) ==
    LET L == LinksMap(g)
        E == UNION {{{p, q} : q \in L[p] \ {p}} : p \in DOMAIN L}
    IN /\ \A p \in DOMAIN L : L[p] \subseteq DOMAIN L
       /\ ReachIn(L, {g.cells[1].pos}) = DOMAIN L
       /\ Cardinality(E) = Len(g.cells) - 1
       /\ NoCycle(L)

\* the state before a generation algorithm is called: a fresh grid
InitGen ==
    /\ grid \in Grids
    /\ pc = "start"
    /\ loc = <<>>

(***************************************************************************)
(* src/src/algorithms.rs: wilsons, _make_initial, _walk                    *)
(***************************************************************************)
\* _make_initial: the possible (unvisited, result) pairs
_make_initial(unvisited) ==
    IF unvisited = {} THEN {[unvisited |-> unvisited, initial |-> None]}
    ELSE {[unvisited |-> unvisited \ {p}, initial |-> Some(p)] : p \in unvisited}

\* wilsons, lines 93-97
wilsons_begin ==
    /\ pc = "start"
    /\ \E r \in _make_initial(CellSet(grid)) :
          loc' = [unvisited |-> r.unvisited, path |-> <<>>, path_set |-> {},
                  next |-> None]
    /\ pc' = "wilsons_loop"
    /\ UNCHANGED grid

\* wilsons, lines 99-108: a walk starts at a random unvisited cell
wilsons_pick ==
    /\ pc = "wilsons_loop"
    /\ loc.unvisited # {}
    /\ \E start \in loc.unvisited :
          loc' = [loc EXCEPT !.path = <<start>>, !.path_set = {start},
                             !.next = None]
    /\ pc' = "walk"
    /\ UNCHANGED grid

\* wilsons, line 99: the loop ends and the function returns
wilsons_return ==
    /\ pc = "wilsons_loop"
    /\ loc.unvisited = {}
    /\ pc' = "done"
    /\ UNCHANGED <<grid, loc>>

\* _walk, lines 138-144: the neighbors of the path's last position, without
\* the position before it
walk_choices(g, path) ==
    LET choices == neighbors(g, path[Len(path)])
    IN IF Len(path) > 1
       THEN SelectSeq(choices, LAMBDA c : c # path[Len(path) - 1])
       ELSE choices

\* _walk, lines 150-155: link path[i], path[i+1] for i from `i` on
RECURSIVE link_path(_, _, _)
link_path(g, path, i) ==
    IF i >= Len(path) THEN g
    ELSE link_path(link(g, path[i], path[i + 1]), path, i + 1)

\* lines 161-166 with path.truncate(i + 2): one position too many is kept
RECURSIVE truncate_at_off_by_one(_, _, _)
truncate_at_off_by_one(path, next, i) ==
    IF i > Len(path) THEN path
    ELSE IF path[i] = next THEN SubSeq(path, 1, i + 1)
    ELSE truncate_at_off_by_one(path, next, i + 1)

\* _walk, lines 161-166: truncate at the first occurrence of next
RECURSIVE truncate_at(_, _, _)
truncate_at(path, next, i) ==
    IF i > Len(path) THEN path
    ELSE IF path[i] = next THEN SubSeq(path, 1, i)
    ELSE truncate_at(path, next, i + 1)

\* _walk, lines 146-176 without the loop erasure of lines 159-171
_walk_step_no_erase(g, l, next) ==
    IF next \notin l.unvisited
    THEN LET path == Append(l.path, next)
         IN [grid |-> link_path(g, path, 1),
             loc |-> [l EXCEPT !.path = path,
                               !.unvisited = @ \ Range(path)],
             ret |-> TRUE]
    ELSE [grid |-> g,
          loc |-> [l EXCEPT !.path = Append(@, next),
                            !.path_set = @ \cup {next}],
          ret |-> FALSE]

\* _walk, lines 146-176: one iteration of the loop with the drawn `next`
_walk_step(g, l, next) ==
    IF next \notin l.unvisited
    THEN LET path == Append(l.path, next)
         IN [grid |-> link_path(g, path, 1),
             loc |-> [l EXCEPT !.path = path,
                               !.unvisited = @ \ Range(path)],
             ret |-> TRUE]
    ELSE IF next \in l.path_set
    THEN LET path == truncate_at(l.path, next, 1)
         IN [grid |-> g,
             loc |-> [l EXCEPT !.path = path, !.path_set = Range(path)],
             ret |-> FALSE]
    ELSE [grid |-> g,
          loc |-> [l EXCEPT !.path = Append(@, next),
                            !.path_set = @ \cup {next}],
          ret |-> FALSE]

\* _walk, lines 137-177: one iteration; with no choice rng.choose returns
\* None and the loop goes round with nothing changed.  loc.next is the
\* position drawn in the walk's last iteration (None before the first)
walk ==
    /\ pc = "walk"
    /\ IF walk_choices(grid, loc.path) = <<>>
       THEN UNCHANGED vars
       ELSE \E next \in Range(walk_choices(grid, loc.path)) :
               LET r == _walk_step(grid, loc, next)
               IN /\ grid' = r.grid
                  /\ loc' = [r.loc EXCEPT !.next = Some(next)]
                  /\ pc' = IF r.ret THEN "wilsons_loop" ELSE "walk"

NextWilsons == wilsons_begin \/ wilsons_pick \/ wilsons_return \/ walk

SpecWilsons == InitGen /\ [][NextWilsons]_vars

\* C2: whenever wilsons returns on a grid that had no links, the link graph
\* is a spanning tree (connected, N-1 links, no cycle)
C2_WilsonsSpanningTree == pc = "done" => IsSpanningTree(grid)

\* wilsons has returned on the polar grid of two rings
C2_Witness ==
    /\ pc = "done"
    /\ grid.kind = "polar"
    /\ Len(grid.cells) > 1
    /\ Cardinality(LinkPairs(grid)) = Len(grid.cells) - 1

\* C3: in every reachable state of a walk there is an admissible next step
\* (so that, under fair draws, the walk reaches a visited cell and wilsons
\* terminates)
C3_WalkHasNextStep == pc = "walk" => walk_choices(grid, loc.path) # <<>>

NoRepeat(path) ==
    \A i \in 1..Len(path), j \in 1..Len(path) : path[i] = path[j] => i = j

FirstIndex(path, p) ==
    CHOOSE i \in 1..Len(path) :
        path[i] = p /\ \A j \in 1..(i - 1) : path[j] # p

\* C22: at every step of a walk of wilsons the path has no position twice
\* (the committed path included), and a step onto a position of the path
\* leaves the path cut just after that position's first occurrence
C22_WalkErasesLoops ==
    [][(pc = "walk" /\ is_some(loc'.next)) =>
          /\ NoRepeat(loc'.path)
          /\ loc'.next[1] \in Range(loc.path) =>
                loc'.path = SubSeq(loc.path, 1, FirstIndex(loc.path, loc'.next[1]))
          /\ loc'.next[1] \notin Range(loc.path) =>
                loc'.path = Append(loc.path, loc'.next[1])]_vars

\* a walk of three steps or more that came back to its start: the whole
\* loop is erased
C22_Witness ==
    /\ pc = "walk"
    /\ Len(grid.cells) >= 4
    /\ loc.next = Some(loc.path[1])
    /\ Len(loc.path) = 1

(***************************************************************************)
(* src/src/algorithms.rs: hunt_and_kill, _hunt_and_kill                    *)
(***************************************************************************)
\* lines 206-211 without the restriction to neighbors: every cell still in
\* unvisited, in cells() order
unvisited_cells(g, unvisited, current) ==
    SelectSeq([i \in 1..Len(g.cells) |-> g.cells[i].pos], LAMBDA x : x \in unvisited)

\* lines 206-211 (and 262-267, 291-296): the neighbors still in unvisited
unvisited_neighbors(g, unvisited, current) ==
    SelectSeq(neighbors(g, current), LAMBDA x : x \in unvisited)

\* lines 224-227 without the filter: every neighbor of cur
all_neighbors(g, cur) == neighbors(g, cur)

\* lines 224-227: the neighbors of cur that have links
linked_neighbors(g, cur) ==
    SelectSeq(neighbors(g, cur), LAMBDA n : has_links(g, n))

\* lines 221-234: the index of the first cell (in cells() order from i on)
\* without links and with a neighbor that has links; 0 when there is none
RECURSIVE hunt_index(_, _)
hunt_index(g, i) ==
    IF i > Len(g.cells) THEN 0
    ELSE IF ~has_links(g, g.cells[i].pos)
            /\ linked_neighbors(g, g.cells[i].pos) # <<>>
         THEN i
         ELSE hunt_index(g, i + 1)

\* _hunt_and_kill: the possible outcomes [grid, unvisited, next] of one call
_hunt_and_kill(g, unvisited, current) ==
    LET un == unvisited_neighbors(g, unvisited, current) IN
    IF un # <<>>
    THEN {[grid |-> link(g, current, n),
           unvisited |-> unvisited \ {n},
           next |-> Some(n)] : n \in Range(un)}
    ELSE IF unvisited # {} /\ hunt_index(g, 1) # 0
    THEN LET cur == g.cells[hunt_index(g, 1)].pos
         IN {[grid |-> link(g, cur, linked_neighbor),
              unvisited |-> unvisited \ {cur},
              next |-> Some(cur)]
                : linked_neighbor \in Range(linked_neighbors(g, cur))}
    ELSE {[grid |-> g, unvisited |-> unvisited, next |-> None]}

\* hunt_and_kill, lines 182-187
hunt_and_kill_begin ==
    /\ pc = "start"
    /\ \E r \in _make_initial(CellSet(grid)) :
          IF is_some(r.initial)
          THEN /\ loc' = [unvisited |-> r.unvisited, current |-> r.initial[1],
                          iters |-> 0]
               /\ pc' = "hunt_and_kill_loop"
          ELSE /\ loc' = [unvisited |-> r.unvisited]
               /\ pc' = "done"
    /\ UNCHANGED grid

\* hunt_and_kill, lines 190-196: one iteration of the loop; iters counts
\* the iterations of the main loop, here and in the algorithms below
hunt_and_kill_step ==
    /\ pc = "hunt_and_kill_loop"
    /\ \E r \in _hunt_and_kill(grid, loc.unvisited, loc.current) :
          /\ grid' = r.grid
          /\ IF is_some(r.next)
             THEN /\ loc' = [unvisited |-> r.unvisited, current |-> r.next[1],
                             iters |-> loc.iters + 1]
                  /\ pc' = pc
             ELSE /\ loc' = [loc EXCEPT !.unvisited = r.unvisited,
                                        !.iters = @ + 1]
                  /\ pc' = "done"

NextHuntAndKill == hunt_and_kill_begin \/ hunt_and_kill_step

SpecHuntAndKill == InitGen /\ [][NextHuntAndKill]_vars

\* C4: after hunt_and_kill returns on a grid that had no links, the link
\* graph is a spanning tree (connected, N-1 links, no cycle)
C4_HuntAndKillSpanningTree == pc = "done" => IsSpanningTree(grid)

\* hunt_and_kill has returned on a grid of 2 x 3 cells or on the polar grid
\* of two rings, after a hunt: the last cell added is not where the walk
\* before it ended
C4_Witness ==
    /\ pc = "done"
    /\ Len(grid.cells) >= 6
    /\ Cardinality(LinkPairs(grid)) = Len(grid.cells) - 1
    /\ Cardinality(links_of(grid, loc.current)) = 1
    /\ \E p \in CellSet(grid) : Cardinality(links_of(grid, p)) >= 3

\* the cells, in cells() order, that are in unvisited and have a neighbor
\* that is not
HuntCandidates(g, unvisited) ==
    SelectSeq(cells_pos(g),
              LAMBDA p : /\ p \in unvisited
                         /\ \E n \in Range(neighbors(g, p)) : n \notin unvisited)

\* C24: in hunt_and_kill, when the current cell has no unvisited neighbor
\* and unvisited cells remain, the walk resumes from the first cell in
\* cells() order that is unvisited and adjacent to a visited cell, and the
\* link added joins that cell to one of its visited neighbors
C24_HuntResumes ==
    [][(/\ pc = "hunt_and_kill_loop"
        /\ loc.unvisited # {}
        /\ \A n \in Range(neighbors(grid, loc.current)) : n \notin loc.unvisited
        /\ HuntCandidates(grid, loc.unvisited) # <<>>) =>
          LET cur == HuntCandidates(grid, loc.unvisited)[1]
          IN /\ pc' = "hunt_and_kill_loop"
             /\ loc'.current = cur
             /\ loc'.unvisited = loc.unvisited \ {cur}
             /\ \E n \in Range(neighbors(grid, cur)) \ loc.unvisited :
                   grid' = link(grid, cur, n)]_vars

(***************************************************************************)
(* src/src/algorithms.rs: recursive_backtracker, _recurse,                 *)
(* iterative_backtracker                                                   *)
(***************************************************************************)
\* recursive_backtracker, lines 245-251: the call _recurse(start); `stack`
\* holds the `current` of every active call of _recurse, innermost last.
\* On entry _recurse removes current from unvisited (line 260).
recursive_backtracker_begin ==
    /\ pc = "start"
    /\ \E r \in _make_initial(CellSet(grid)) :
          IF is_some(r.initial)
          THEN /\ loc' = [alg |-> "recursive_backtracker",
                          unvisited |-> r.unvisited \ {r.initial[1]},
                          stack |-> <<r.initial[1]>>, iters |-> 0]
               /\ pc' = "_recurse"
          ELSE /\ loc' = [alg |-> "recursive_backtracker"]
               /\ pc' = "done"
    /\ UNCHANGED grid

\* _recurse, lines 261-277: one iteration of the loop of the innermost
\* call: it links and calls itself, or breaks and returns to its caller
_recurse ==
    /\ pc = "_recurse"
    /\ LET current == loc.stack[Len(loc.stack)]
           un == unvisited_neighbors(grid, loc.unvisited, current)
       IN IF un # <<>>
          THEN \E neighbor \in Range(un) :
                  /\ grid' = link(grid, current, neighbor)
                  /\ loc' = [loc EXCEPT !.stack = Append(@, neighbor),
                                        !.unvisited = @ \ {neighbor},
                                        !.iters = @ + 1]
                  /\ pc' = pc
          ELSE /\ loc' = [loc EXCEPT !.stack = SubSeq(@, 1, Len(@) - 1),
                                     !.iters = @ + 1]
               /\ pc' = IF Len(loc.stack) = 1 THEN "done" ELSE pc
               /\ UNCHANGED grid

\* iterative_backtracker, lines 281-287
iterative_backtracker_begin ==
    /\ pc = "start"
    /\ \E r \in _make_initial(CellSet(grid)) :
          IF is_some(r.initial)
          THEN /\ loc' = [alg |-> "iterative_backtracker",
                          unvisited |-> r.unvisited,
                          stack |-> <<r.initial[1]>>, iters |-> 0]
               /\ pc' = "iterative_backtracker_loop"
          ELSE /\ loc' = [alg |-> "iterative_backtracker"]
               /\ pc' = "done"
    /\ UNCHANGED grid

\* iterative_backtracker, lines 289-305: the possible outcomes [grid, loc]
\* of one iteration of the while loop, the stack not being empty
iterative_backtracker_iter(g, l) ==
    LET cur == l.stack[Len(l.stack)]
        popped == SubSeq(l.stack, 1, Len(l.stack) - 1)
        unvisited == l.unvisited \ {cur}
        un == unvisited_neighbors(g, unvisited, cur)
    IN IF un # <<>>
       THEN {[grid |-> link(g, cur, neighbor),
              loc |-> [l EXCEPT !.unvisited = unvisited,
                                !.stack = popped \o <<cur, neighbor>>,
                                !.iters = @ + 1]] : neighbor \in Range(un)}
       ELSE {[grid |-> g,
              loc |-> [l EXCEPT !.unvisited = unvisited,
                                !.stack = popped,
                                !.iters = @ + 1]]}

\* iterative_backtracker, lines 289-305: one iteration of the while loop,
\* or its end when the stack is empty
iterative_backtracker_step ==
    /\ pc = "iterative_backtracker_loop"
    /\ IF loc.stack = <<>>
       THEN /\ pc' = "done"
            /\ UNCHANGED <<grid, loc>>
       ELSE \E r \in iterative_backtracker_iter(grid, loc) :
               /\ grid' = r.grid
               /\ loc' = r.loc
               /\ pc' = pc

(***************************************************************************)
(* src/src/algorithms.rs: simplified_prims, true_prims, growing_tree       *)
(***************************************************************************)
\* MazeGrid::random_pos: a uniformly random position of the grid, None on
\* a grid without cells
random_pos(g) ==
    IF CellSet(g) = {} THEN {None} ELSE {Some(p) : p \in CellSet(g)}

\* lines 368-371, 401-403 and 432-435 filtering on "not linked to pos"
\* instead of "has no links"
not_linked_to_pos(g, pos) ==
    SelectSeq(neighbors(g, pos), LAMBDA n : n \notin links_of(g, pos))

\* lines 368-371, 401-403 and 432-435 without the filter: every neighbor
every_neighbor(g, pos) == neighbors(g, pos)

\* lines 368-371, 401-403 and 432-435 with the first neighbor without
\* links skipped
unlinked_neighbors_skip_first(g, pos) ==
    LET un == SelectSeq(neighbors(g, pos), LAMBDA n : ~has_links(g, n))
    IN IF un = <<>> THEN un ELSE Tail(un)

\* lines 368-371, 401-403 and 432-435: the neighbors of pos without links
unlinked_neighbors(g, pos) ==
    SelectSeq(neighbors(g, pos), LAMBDA n : ~has_links(g, n))

\* simplified_prims, lines 358-360.  In the three algorithms with an active
\* set, loc.removed is the set of the positions active.remove was called
\* with since the call began (a record of the run, not a local of the code)
simplified_prims_begin ==
    /\ pc = "start"
    /\ \E start \in random_pos(grid) :
          IF is_some(start)
          THEN /\ loc' = [alg |-> "simplified_prims", active |-> {start[1]},
                          iters |-> 0, removed |-> {}]
               /\ pc' = "simplified_prims_loop"
          ELSE /\ loc' = [alg |-> "simplified_prims"]
               /\ pc' = "done"
    /\ UNCHANGED grid

\* simplified_prims, lines 362-379: one iteration of the while loop, or
\* its end when active is empty
simplified_prims_step ==
    /\ pc = "simplified_prims_loop"
    /\ IF loc.active = {}
       THEN /\ pc' = "done"
            /\ UNCHANGED <<grid, loc>>
       ELSE \E pos \in loc.active :
               /\ pc' = pc
               /\ IF unlinked_neighbors(grid, pos) # <<>>
                  THEN \E neighbor \in Range(unlinked_neighbors(grid, pos)) :
                          /\ grid' = link(grid, pos, neighbor)
                          /\ loc' = [loc EXCEPT !.active = @ \cup {neighbor},
                                                !.iters = @ + 1]
                  ELSE /\ loc' = [loc EXCEPT !.active = @ \ {pos},
                                             !.iters = @ + 1,
                                             !.removed = @ \cup {pos}]
                       /\ UNCHANGED grid

\* Iterator::min_by over a HashSet: the first minimal element in the set's
\* iteration order, which is any of the elements of minimal cost
min_by_cost_set(S, costs) == {x \in S : \A y \in S : costs[x] <= costs[y]}

\* Iterator::min_by over a Vec: the first element of minimal cost
min_by_cost(s, costs) ==
    LET i == CHOOSE k \in 1..Len(s) :
                /\ \A j \in 1..Len(s) : costs[s[k]] <= costs[s[j]]
                /\ \A j \in 1..(k - 1) : costs[s[j]] > costs[s[k]]
    IN s[i]

\* true_prims, lines 384-394, with the drawn costs kept in the cells'
\* weights as well
true_prims_begin_cost_in_weight ==
    /\ pc = "start"
    /\ Len(grid.cells) <= MaxTreeCells
    /\ \E start \in random_pos(grid) :
          IF is_some(start)
          THEN /\ \E costs \in [CellSet(grid) -> 0..MaxCost] :
                     /\ loc' = [alg |-> "true_prims", costs |-> costs,
                                active |-> {start[1]}, iters |-> 0,
                                removed |-> {}]
                     /\ grid' = [grid EXCEPT !.cells =
                                   [k \in 1..Len(grid.cells) |->
                                      [grid.cells[k] EXCEPT
                                         !.weight = costs[grid.cells[k].pos]]]]
               /\ pc' = "true_prims_loop"
          ELSE /\ loc' = [alg |-> "true_prims"]
               /\ pc' = "done"
               /\ UNCHANGED grid

\* true_prims, lines 386-393
true_prims_begin ==
    /\ pc = "start"
    /\ Len(grid.cells) <= MaxTreeCells
    /\ \E start \in random_pos(grid) :
          IF is_some(start)
          THEN /\ \E costs \in [CellSet(grid) -> 0..MaxCost] :
                     loc' = [alg |-> "true_prims", costs |-> costs,
                             active |-> {start[1]}, iters |-> 0,
                             removed |-> {}]
               /\ pc' = "true_prims_loop"
          ELSE /\ loc' = [alg |-> "true_prims"]
               /\ pc' = "done"
    /\ UNCHANGED grid

\* true_prims, lines 395-412: one iteration of the while loop, or its end
true_prims_step ==
    /\ pc = "true_prims_loop"
    /\ IF loc.active = {}
       THEN /\ pc' = "done"
            /\ UNCHANGED <<grid, loc>>
       ELSE \E pos \in min_by_cost_set(loc.active, loc.costs) :
               /\ pc' = pc
               /\ IF unlinked_neighbors(grid, pos) # <<>>
                  THEN LET neighbor ==
                              min_by_cost(unlinked_neighbors(grid, pos), loc.costs)
                       IN /\ grid' = link(grid, pos, neighbor)
                          /\ loc' = [loc EXCEPT !.active = @ \cup {neighbor},
                                                !.iters = @ + 1]
                  ELSE /\ loc' = [loc EXCEPT !.active = @ \ {pos},
                                             !.iters = @ + 1,
                                             !.removed = @ \cup {pos}]
                       /\ UNCHANGED grid

\* random_selection: any element of the active set
random_selection(active) == {Some(active[i]) : i \in 1..Len(active)}

\* last_selection returning active.front()
first_selection(active) ==
    IF active = <<>> THEN {None} ELSE {Some(active[1])}

\* last_selection: active.back()
last_selection(active) ==
    IF active = <<>> THEN {None} ELSE {Some(active[Len(active)])}

\* mixed_selection: one or the other, by a coin
mixed_selection(active) == last_selection(active) \cup random_selection(active)

SelectionFns == {"random_selection", "last_selection", "mixed_selection"}

selection_fn(name, active) ==
    IF name = "random_selection" THEN random_selection(active)
    ELSE IF name = "last_selection" THEN last_selection(active)
    ELSE mixed_selection(active)

\* LinkedHashSet::insert: the value goes to the end of the ordering,
\* whether the set contained it or not
LinkedHashSet_insert(active, x) ==
    Append(SelectSeq(active, LAMBDA y : y # x), x)

\* LinkedHashSet::remove of a value that is never found
LinkedHashSet_remove_missing(active, x) == active

\* LinkedHashSet::remove
LinkedHashSet_remove(active, x) == SelectSeq(active, LAMBDA y : y # x)

\* growing_tree, lines 423-425
growing_tree_begin ==
    /\ pc = "start"
    /\ \E start \in random_pos(grid), f \in SelectionFns :
          /\ f = "last_selection" \/ Len(grid.cells) <= MaxTreeCells
          /\ IF is_some(start)
             THEN /\ loc' = [alg |-> "growing_tree", selection_fn |-> f,
                             active |-> <<start[1]>>, iters |-> 0,
                             removed |-> {}]
                  /\ pc' = "growing_tree_loop"
             ELSE /\ loc' = [alg |-> "growing_tree", selection_fn |-> f]
                  /\ pc' = "done"
    /\ UNCHANGED grid

\* growing_tree, lines 427-442: the possible outcomes [grid, loc] of one
\* iteration of the while loop, the active set not being empty
growing_tree_iter(g, l) ==
    UNION {LET pos == sel[1] IN
           IF unlinked_neighbors(g, pos) # <<>>
           THEN {[grid |-> link(g, pos, neighbor),
                  loc |-> [l EXCEPT
                             !.active = LinkedHashSet_insert(@, neighbor),
                             !.iters = @ + 1]]
                    : neighbor \in Range(unlinked_neighbors(g, pos))}
           ELSE {[grid |-> g,
                  loc |-> [l EXCEPT
                             !.active = LinkedHashSet_remove(@, pos),
                             !.iters = @ + 1,
                             !.removed = @ \cup {pos}]]}
             : sel \in selection_fn(l.selection_fn, l.active)}

\* growing_tree, lines 427-442: one iteration of the while loop, or its end
growing_tree_step ==
    /\ pc = "growing_tree_loop"
    /\ IF loc.active = <<>>
       THEN /\ pc' = "done"
            /\ UNCHANGED <<grid, loc>>
       ELSE \E r \in growing_tree_iter(grid, loc) :
               /\ grid' = r.grid
               /\ loc' = r.loc
               /\ pc' = pc

NextGrow ==
    \/ recursive_backtracker_begin
    \/ _recurse
    \/ iterative_backtracker_begin
    \/ iterative_backtracker_step
    \/ simplified_prims_begin
    \/ simplified_prims_step
    \/ true_prims_begin
    \/ true_prims_step
    \/ growing_tree_begin
    \/ growing_tree_step

SpecGrow == InitGen /\ [][NextGrow]_vars

\* C5: after recursive_backtracker, iterative_backtracker, simplified_prims,
\* true_prims or growing_tree (any selection policy) returns on a grid that
\* had no links, the link graph is a spanning tree
C5_GrowSpanningTree == pc = "done" => IsSpanningTree(grid)

\* simplified_prims has returned on the polar grid of two rings, leaving a
\* cell with three links or more
C5_Witness ==
    /\ pc = "done"
    /\ loc.alg = "simplified_prims"
    /\ grid.kind = "polar"
    /\ Len(grid.cells) > 1
    /\ Cardinality(LinkPairs(grid)) = Len(grid.cells) - 1
    /\ \E p \in CellSet(grid) : Cardinality(links_of(grid, p)) >= 3

\* the active set of simplified_prims, true_prims and growing_tree
Active(l) == IF l.alg = "growing_tree" THEN Range(l.active) ELSE l.active

\* C23: in growing_tree, simplified_prims and true_prims a position leaves
\* the active set only when every one of its neighbors has links, and a
\* position that left it is not in it again later in the run
C23_ActiveRemoval ==
    [][("removed" \in DOMAIN loc /\ "removed" \in DOMAIN loc') =>
          /\ \A p \in Active(loc) \ Active(loc') :
                \A n \in Range(neighbors(grid, p)) : has_links(grid, n)
          /\ loc'.removed = loc.removed \cup (Active(loc) \ Active(loc'))
          /\ Active(loc') \cap loc'.removed = {}]_vars

\* a run in which three positions have left the active set while others
\* are still in it
C23_Witness ==
    /\ "removed" \in DOMAIN loc
    /\ Cardinality(loc.removed) >= 3
    /\ Cardinality(Active(loc)) >= 2

(***************************************************************************)
(* src/src/algorithms.rs: aldous_broder                                    *)
(***************************************************************************)
\* aldous_broder, lines 64-72
aldous_broder_begin ==
    /\ pc = "start"
    /\ IF Len(grid.cells) = 0
       THEN /\ loc' = [links |-> <<>>, linked |-> {}]
            /\ pc' = "aldous_broder_link"
       ELSE \E i \in 1..Len(grid.cells) :
               /\ loc' = [links |-> <<>>,
                          linked |-> {grid.cells[i].pos},
                          pos |-> grid.cells[i].pos,
                          unvisited |-> Len(grid.cells) - 1]
               /\ pc' = "aldous_broder_loop"
    /\ UNCHANGED grid

\* lines 75-83 without the test of line 76: every step is recorded
aldous_broder_iter_no_test(l, neighbor_pos) ==
    [l EXCEPT !.links = Append(@, <<l.pos, neighbor_pos>>),
              !.linked = @ \cup {neighbor_pos},
              !.unvisited = @ - 1,
              !.pos = neighbor_pos]

\* aldous_broder, lines 75-83: the body of the while loop for the drawn
\* neighbor_pos
aldous_broder_iter(l, neighbor_pos) ==
    IF neighbor_pos \notin l.linked
    THEN [l EXCEPT !.links = Append(@, <<l.pos, neighbor_pos>>),
                   !.linked = @ \cup {neighbor_pos},
                   !.unvisited = @ - 1,
                   !.pos = neighbor_pos]
    ELSE [l EXCEPT !.pos = neighbor_pos]

\* aldous_broder, lines 74-84: one iteration of the while loop, or its end
aldous_broder_step ==
    /\ pc = "aldous_broder_loop"
    /\ UNCHANGED grid
    /\ IF loc.unvisited > 0
       THEN /\ pc' = pc
            /\ IF neighbors(grid, loc.pos) = <<>>
               THEN UNCHANGED loc
               ELSE \E neighbor_pos \in Range(neighbors(grid, loc.pos)) :
                       loc' = aldous_broder_iter(loc, neighbor_pos)
       ELSE /\ pc' = "aldous_broder_link"
            /\ UNCHANGED loc

\* lines 58-60 and 87-89: grid.link(p1, p2) for every recorded pair
RECURSIVE link_all(_, _)
link_all(g, links) ==
    IF links = <<>> THEN g
    ELSE link_all(link(g, Head(links)[1], Head(links)[2]), Tail(links))

\* aldous_broder, lines 87-89, and the return
aldous_broder_link ==
    /\ pc = "aldous_broder_link"
    /\ grid' = link_all(grid, loc.links)
    /\ pc' = "done"
    /\ UNCHANGED loc

NextAldousBroder == aldous_broder_begin \/ aldous_broder_step \/ aldous_broder_link

\* a fresh grid: a polar grid, or a rectangular one of at most MaxWalkCells
\* cells
InitAldousBroder ==
    /\ InitGen
    /\ grid.kind = "polar" \/ Len(grid.cells) <= MaxWalkCells

SpecAldousBroder == InitAldousBroder /\ [][NextAldousBroder]_vars

\* the cells the walk had visited before it recorded links[i]
VisitedBefore(links, i) == {links[1][1]} \cup {links[j][2] : j \in 1..(i - 1)}

\* every recorded link joins a cell visited before to a neighbor of it that
\* had not been visited before
RecordedLinksFresh(g, links) ==
    \A i \in 1..Len(links) :
        /\ links[i][2] \in Range(neighbors(g, links[i][1]))
        /\ links[i][1] \in VisitedBefore(links, i)
        /\ links[i][2] \notin VisitedBefore(links, i)

\* C6: every link aldous_broder has recorded when its walk ends joins the
\* walk's current cell to a neighbor never visited before, and whenever it
\* returns on a grid that had no links the link graph is a spanning tree
C6_AldousBroderSpanningTree ==
    /\ pc \in {"aldous_broder_link", "done"} =>
          RecordedLinksFresh(grid, loc.links)
    /\ pc = "done" => IsSpanningTree(grid)

\* aldous_broder has returned on the polar grid of two rings, and its walk
\* came back to visited cells: the links are not one path
C6_Witness ==
    /\ pc = "done"
    /\ grid.kind = "polar"
    /\ Len(loc.links) = 6
    /\ \E i \in 2..Len(loc.links) : loc.links[i][1] # loc.links[i - 1][2]

(***************************************************************************)
(* src/src/algorithms.rs: binary, sidewinder (rectangular grids)           *)
(***************************************************************************)
InitRect ==
    /\ grid \in RectGrids
    /\ pc = "start"
    /\ loc = <<>>

\* binary, line 11, and the loop's start (binary takes a &mut Grid)
binary_begin ==
    /\ pc = "start"
    /\ grid.kind = "rect"
    /\ loc' = [alg |-> "binary", i |-> 0]
    /\ pc' = "binary_loop"
    /\ UNCHANGED grid

\* binary, lines 15-22: the south and the east neighbor, the present ones
binary_choices(g, c) ==
    get_pos(g, Position_new(c.row + 1, c.col))
        \o get_pos(g, Position_new(c.row, c.col + 1))

\* binary, lines 13-27: one iteration of the for loop, or its end
binary_step ==
    /\ pc = "binary_loop"
    /\ IF loc.i < Len(grid.cells)
       THEN LET c == grid.cells[loc.i + 1].pos IN
            /\ loc' = [loc EXCEPT !.i = @ + 1]
            /\ pc' = pc
            /\ IF binary_choices(grid, c) = <<>>
               THEN UNCHANGED grid
               ELSE \E pos \in Range(binary_choices(grid, c)) :
                       grid' = link(grid, c, pos)
       ELSE /\ pc' = "done"
            /\ UNCHANGED <<grid, loc>>

\* sidewinder, lines 31-35: the first row's run is created
sidewinder_begin ==
    /\ pc = "start"
    /\ grid.kind = "rect"
    /\ loc' = [alg |-> "sidewinder", links |-> <<>>, row |-> 0, col |-> 0,
               run |-> <<>>]
    /\ pc' = "sidewinder_loop"
    /\ UNCHANGED grid

\* line 44 without the east_bound test
sidewinder_close_no_east(cell) ==
    IF cell.south # None THEN {TRUE, FALSE} ELSE {FALSE}

\* sidewinder, lines 41-44: the values `close` can take for the cell
sidewinder_close(cell) ==
    LET east_bound == cell.east = None
        south_bound == cell.south = None
    IN IF east_bound THEN {TRUE}
       ELSE IF ~south_bound THEN {TRUE, FALSE} ELSE {FALSE}

\* sidewinder, lines 38-55: the body of the inner loop for the cell at
\* (row, col)
sidewinder_cell ==
    /\ pc = "sidewinder_loop"
    /\ loc.row < grid.height
    /\ loc.col < grid.width
    /\ LET cell == get(grid, Position_new(loc.row, loc.col))[1]
           run == Append(loc.run, cell.pos)
       IN \E close \in sidewinder_close(cell) :
             IF close
             THEN \E k \in 1..Len(run) :
                     LET choice == get(grid, run[k])[1] IN
                     loc' = [loc EXCEPT
                               !.links = IF choice.south # None
                                         THEN Append(@, <<choice.pos, choice.south[1]>>)
                                         ELSE @,
                               !.run = <<>>,
                               !.col = @ + 1]
             ELSE loc' = [loc EXCEPT
                            !.links = IF cell.east # None
                                      THEN Append(@, <<cell.pos, cell.east[1]>>)
                                      ELSE @,
                            !.run = run,
                            !.col = @ + 1]
    /\ UNCHANGED <<grid, pc>>

\* sidewinder, lines 34-37: the inner loop ends, the next row starts with
\* a new run
sidewinder_next_row ==
    /\ pc = "sidewinder_loop"
    /\ loc.row < grid.height
    /\ loc.col = grid.width
    /\ loc' = [loc EXCEPT !.row = @ + 1, !.col = 0, !.run = <<>>]
    /\ UNCHANGED <<grid, pc>>

\* sidewinder, lines 58-60, and the return
sidewinder_link ==
    /\ pc = "sidewinder_loop"
    /\ loc.row = grid.height
    /\ grid' = link_all(grid, loc.links)
    /\ pc' = "done"
    /\ UNCHANGED loc

NextRect ==
    \/ binary_begin
    \/ binary_step
    \/ sidewinder_begin
    \/ sidewinder_cell
    \/ sidewinder_next_row
    \/ sidewinder_link

SpecRect == InitRect /\ [][NextRect]_vars

\* C7: on every rectangular grid without links binary and sidewinder each
\* leave a spanning tree, and in sidewinder the run is closed (empty) when
\* the last cell of a row has been handled
C7_RectSpanningTree ==
    /\ pc = "done" => IsSpanningTree(grid)
    /\ (pc = "sidewinder_loop" /\ loc.col = grid.width) => loc.run = <<>>

\* sidewinder has returned on a grid of two rows or more and three columns
\* or more, having closed a run of two cells by a link from its first cell
C7_Witness ==
    /\ pc = "done"
    /\ loc.alg = "sidewinder"
    /\ grid.height >= 2
    /\ grid.width >= 3
    /\ <<Position_new(0, 0), Position_new(0, 1)>> \in Range(loc.links)
    /\ <<Position_new(0, 0), Position_new(1, 0)>> \in Range(loc.links)

(***************************************************************************)
(* src/src/solver.rs: dijkstra, solve                                      *)
(***************************************************************************)
\* BTreeSet::iter: the elements in ascending order
RECURSIVE BTreeSet_iter(_)
BTreeSet_iter(S) ==
    IF S = {} THEN <<>>
    ELSE LET m == CHOOSE x \in S : \A y \in S \ {x} : Position_lt(x, y)
         IN <<m>> \o BTreeSet_iter(S \ {m})

\* update_weight that clears the in_solution flag as well
Cell_update_weight_unmark(cell, weight) ==
    [cell EXCEPT !.weight = weight, !.in_solution = FALSE]

\* MazeCell::update_weight
Cell_update_weight(cell, weight) == [cell EXCEPT !.weight = weight]

\* MazeCell::mark_in_solution
Cell_mark_in_solution(cell) == [cell EXCEPT !.in_solution = TRUE]

\* dijkstra, lines 13-30: the for loop over front[i..], giving the grid,
\* visited and next it ends with
RECURSIVE dijkstra_front(_, _, _, _, _, _)
dijkstra_front(g, visited, front, i, next, dist) ==
    IF i > Len(front) THEN [grid |-> g, visited |-> visited, next |-> next]
    ELSE LET pos == front[i] IN
         IF pos \in visited
         THEN dijkstra_front(g, visited, front, i + 1, next, dist)
         ELSE LET visited1 == visited \cup {pos}
                  k == get_mut(g, pos)
              IN IF k = 0
                 THEN dijkstra_front(g, visited1, front, i + 1, next, dist)
                 ELSE LET g1 == [g EXCEPT !.cells[k] = Cell_update_weight(@, dist)]
                          links == SelectSeq(BTreeSet_iter(g1.cells[k].links),
                                             LAMBDA l : l \notin visited1)
                      IN dijkstra_front(g1, visited1, front, i + 1,
                                        next \o links, dist)

\* dijkstra, lines 11-33: the while loop from (visited, front, dist) on
RECURSIVE dijkstra_loop(_, _, _, _)
dijkstra_loop(g, visited, front, dist) ==
    IF front = <<>> THEN g
    ELSE LET r == dijkstra_front(g, visited, front, 1, <<>>, dist)
         IN dijkstra_loop(r.grid, r.visited, r.next, dist + 1)

\* dijkstra that gives every cell of a layer the weight of the layer before
dijkstra_start_at_one(g, start) == dijkstra_loop(g, {}, <<start>>, 1)

\* dijkstra(grid, start): the grid it leaves
dijkstra(g, start) == dijkstra_loop(g, {}, <<start>>, 0)

\* solve, lines 51-59: the first link (in BTreeSet order, from links[i] on)
\* to a cell of smaller weight than cur's; None when there is none
RECURSIVE solve_next(_, _, _, _)
solve_next(g, cur, links, i) ==
    IF i > Len(links) THEN None
    ELSE IF is_some(get(g, links[i]))
            /\ get(g, links[i])[1].weight < cur.weight
         THEN Some(links[i])
         ELSE solve_next(g, cur, links, i + 1)

\* solve, lines 45-61: the while loop from next = Some(cur) on, giving the
\* grid it leaves and the positions it went through
RECURSIVE solve_loop(_, _, _)
solve_loop(g, cur, path) ==
    LET k == get_mut(g, cur)
        g1 == IF k = 0 THEN g
              ELSE [g EXCEPT !.cells[k] = Cell_mark_in_solution(@)]
        next == IF is_some(get(g1, cur))
                THEN solve_next(g1, get(g1, cur)[1],
                                BTreeSet_iter(get(g1, cur)[1].links), 1)
                ELSE None
    IN IF is_some(next)
       THEN solve_loop(g1, next[1], Append(path, cur))
       ELSE [grid |-> g1, path |-> Append(path, cur)]

\* solve without the call of dijkstra of line 41
solve_no_dijkstra(g, start, target) == solve_loop(g, target, <<>>)

\* solve that marks start before it walks back from target
solve_mark_start(g, start, target) ==
    LET g0 == dijkstra(g, start)
        k == get_mut(g0, start)
    IN solve_loop(IF k = 0 THEN g0
                  ELSE [g0 EXCEPT !.cells[k] = Cell_mark_in_solution(@)],
                  target, <<>>)

\* solve(grid, start, target): the grid it leaves, and the positions its
\* walk back from target went through
solve(g, start, target) == solve_loop(dijkstra(g, start), target, <<>>)

\* the cells marked in_solution
Marked(g) == {g.cells[i].pos : i \in {j \in 1..Len(g.cells) : g.cells[j].in_solution}}

\* the weight of the cell at pos
weight_of(g, pos) == get(g, pos)[1].weight

\* a fresh grid of at most MaxSolveCells cells
InitSolve ==
    /\ grid \in {g \in Grids : Len(g.cells) <= MaxSolveCells}
    /\ pc = "idle"
    /\ loc = [calls |-> 0, last |-> [op |-> "new"]]

\* a maze is built: link(a, b) for two different cells, before the solver
\* is first called
SolveLink ==
    /\ pc = "idle"
    /\ loc.calls = 0
    /\ \E a \in Contained(grid), b \in Contained(grid) :
          /\ a # b
          /\ grid' = link(grid, a, b)
    /\ UNCHANGED <<pc, loc>>

\* a call dijkstra(grid, start)
Dijkstra ==
    /\ pc = "idle"
    /\ loc.calls < MaxCalls
    /\ \E start \in Contained(grid) :
          /\ grid' = dijkstra(grid, start)
          /\ loc' = [calls |-> loc.calls + 1,
                     last |-> [op |-> "dijkstra", start |-> start]]
    /\ UNCHANGED pc

\* a call solve(grid, start, target)
Solve ==
    /\ pc = "idle"
    /\ loc.calls < MaxCalls
    /\ \E start \in Contained(grid), target \in Contained(grid) :
          LET r == solve(grid, start, target) IN
          /\ grid' = r.grid
          /\ loc' = [calls |-> loc.calls + 1,
                     last |-> [op |-> "solve", start |-> start,
                               target |-> target, path |-> r.path,
                               fresh |-> Marked(grid) = {}]]
    /\ UNCHANGED pc

NextSolve == SolveLink \/ Dijkstra \/ Solve

SpecSolve == InitSolve /\ [][NextSolve]_vars

\* the cells at most k links away from the set S
RECURSIVE Ball(_, _, _)
Ball(L, S, k) ==
    IF k = 0 THEN S
    ELSE LET B == Ball(L, S, k - 1)
         IN B \cup UNION {L[p] : p \in B \cap DOMAIN L}

\* the shortest hop count from start to p in the link graph (p reachable)
HopCount(g, start, p) ==
    LET L == LinksMap(g)
    IN CHOOSE k \in 0..Len(g.cells) :
          /\ p \in Ball(L, {start}, k)
          /\ k > 0 => p \notin Ball(L, {start}, k - 1)

\* C8: after dijkstra(grid, start) every cell reachable from start through
\* links has weight equal to its shortest hop count from start, also when
\* the link graph has cycles
C8_DijkstraShortest ==
    loc.last.op \in {"dijkstra", "solve"} =>
        \A p \in Reach(grid, {loc.last.start}) :
            weight_of(grid, p) = HopCount(grid, loc.last.start, p)

\* dijkstra has run on a link graph that is a cycle of three cells, after
\* an earlier call from another start whose weights it has overwritten
C8_Witness ==
    /\ loc.last.op = "dijkstra"
    /\ loc.calls = 2
    /\ \E a, b, c \in CellSet(grid) :
          /\ a # b /\ b # c /\ a # c
          /\ {b, c} \subseteq links_of(grid, a)
          /\ c \in links_of(grid, b)
          /\ a = loc.last.start
          /\ weight_of(grid, a) = 0
          /\ weight_of(grid, b) = 1
          /\ weight_of(grid, c) = 1

\* the marked cells form one link path from target to start along which
\* the weight decreases by exactly 1 per step down to 0 at start
MarkedIsPath(g, start, target) ==
    LET M == Marked(g)
        n == Cardinality(M)
    IN /\ start \in M
       /\ target \in M
       /\ weight_of(g, start) = 0
       /\ weight_of(g, target) = n - 1
       /\ \A k \in 0..(n - 1) :
             Cardinality({p \in M : weight_of(g, p) = k}) = 1
       /\ \A p \in M, q \in M :
             weight_of(g, p) = weight_of(g, q) + 1 => q \in links_of(g, p)

\* C9: after solve(grid, start, target) on a grid where no cell was marked
\* before and target is link-reachable from start, start and target are
\* marked and the marked cells form one link path from target to start
\* with weights decreasing by exactly 1 per step to 0 at start
C9_SolvePath ==
    (/\ loc.last.op = "solve"
     /\ loc.last.fresh
     /\ loc.last.target \in Reach(grid, {loc.last.start}))
        => MarkedIsPath(grid, loc.last.start, loc.last.target)

\* solve has marked a path of three cells from a target two links away
\* from start, after an earlier dijkstra call
C9_Witness ==
    /\ loc.last.op = "solve"
    /\ loc.calls = 2
    /\ loc.last.fresh
    /\ loc.last.target \in Reach(grid, {loc.last.start})
    /\ Cardinality(Marked(grid)) >= 3
    /\ weight_of(grid, loc.last.target) = 2

\* C10: after any sequence of solve calls a cell's in_solution flag is true
\* if and only if the cell lies on the path of the most recent solve call
C10_MarkedIsLastPath ==
    loc.last.op = "solve" => Marked(grid) = Range(loc.last.path)

(***************************************************************************)
(* src/src/algorithms.rs: deadends, braid                                  *)
(***************************************************************************)
\* the largest number of cells of a grid on which sequences of generation
\* algorithm and braid calls are run
MaxMazeCells == 4

\* deadends: the positions, in cells() order, of the cells with fewer than
\* 2 links
deadends(g) ==
    SelectSeq(cells_pos(g), LAMBDA p : Cardinality(g.cells[cell_idx(g, p)].links) < 2)

\* MazeGrid::num_links: the number of links of the cell at pos
num_links(g, pos) == Cardinality(links_of(g, pos))

\* braid's dead_end_removal_probability and the values of rng.gen::<f32>()
\* (in [0, 1)), both in tenths
Probabilities == {0, 5, 10}
Draws == {0, 5, 9}

\* lines 329-343 without the test of line 340: only neighbors that are
\* dead ends themselves are candidates
braid_choices_best_only(g, pos) ==
    IF is_some(get(g, pos))
    THEN LET cell == get(g, pos)[1]
             nbrs == SelectSeq(CellNeighbors(g, cell), LAMBDA p : p \notin cell.links)
         IN SelectSeq(nbrs, LAMBDA p : num_links(g, p) = 1)
    ELSE <<>>

\* braid, lines 328-347: the list rng.choose draws the choice from (empty
\* when the cell is not found)
braid_choices(g, pos) ==
    IF is_some(get(g, pos))
    THEN LET cell == get(g, pos)[1]
             nbrs == SelectSeq(CellNeighbors(g, cell), LAMBDA p : p \notin cell.links)
             best == SelectSeq(nbrs, LAMBDA p : num_links(g, p) = 1)
         IN IF best # <<>> THEN best ELSE nbrs
    ELSE <<>>

\* braid, lines 317-321, called on a fresh grid or after an earlier call
\* has returned: deadends(grid) is computed once.  on_tree records whether
\* the grid held a spanning tree when braid was called.
braid_begin ==
    /\ pc \in {"start", "done"}
    /\ \E p \in Probabilities :
          loc' = [alg |-> "braid", probability |-> p,
                  deadends |-> deadends(grid), i |-> 1,
                  on_tree |-> IsSpanningTree(grid)]
    /\ pc' = "braid_loop"
    /\ UNCHANGED grid

\* braid, lines 321-351: one iteration of the for loop, or its end
braid_step ==
    /\ pc = "braid_loop"
    /\ IF loc.i > Len(loc.deadends)
       THEN /\ pc' = "done"
            /\ UNCHANGED <<grid, loc>>
       ELSE /\ pc' = pc
            /\ loc' = [loc EXCEPT !.i = @ + 1]
            /\ \E r \in Draws :
                  IF r >= loc.probability
                  THEN UNCHANGED grid
                  ELSE LET choices == braid_choices(grid, loc.deadends[loc.i])
                       IN IF choices = <<>>
                          THEN UNCHANGED grid
                          ELSE \E k \in 1..Len(choices) :
                                  grid' = link(grid, loc.deadends[loc.i], choices[k])

\* a generation algorithm or braid returns to its caller, which may call
\* another one on the same grid
call_return ==
    /\ pc = "done"
    /\ pc' = "start"
    /\ loc' = <<>>
    /\ UNCHANGED grid

NextMaze ==
    \/ NextWilsons
    \/ NextHuntAndKill
    \/ NextGrow
    \/ NextAldousBroder
    \/ NextRect
    \/ braid_begin
    \/ braid_step
    \/ call_return

\* a fresh grid of at most MaxMazeCells cells
InitMaze ==
    /\ InitGen
    /\ Len(grid.cells) <= MaxMazeCells

SpecMaze == InitMaze /\ [][NextMaze]_vars

(***************************************************************************)
(* SpecBraid: aldous_broder builds any spanning tree of the grid, then     *)
(* braid is called.                                                        *)
(***************************************************************************)
NextBraid == NextAldousBroder \/ braid_begin \/ braid_step

SpecBraid == InitAldousBroder /\ [][NextBraid]_vars

\* braid has returned
braid_done == pc = "done" /\ "probability" \in DOMAIN loc

\* C11: after braid(grid, 1.0) on a grid holding a spanning-tree maze the
\* number of dead ends has not increased and every cell that is still a
\* dead end has fewer than 2 neighbors
C11_BraidRemovesDeadEnds ==
    (braid_done /\ loc.probability = 10 /\ loc.on_tree) =>
        /\ Len(deadends(grid)) <= Len(loc.deadends)
        /\ \A d \in Range(deadends(grid)) : Len(neighbors(grid, d)) < 2

\* braid(grid, 1.0) has returned on a spanning tree that had three dead
\* ends or more, and fewer dead ends are left
C11_Witness ==
    /\ braid_done /\ loc.probability = 10 /\ loc.on_tree
    /\ Len(loc.deadends) >= 3
    /\ Len(deadends(grid)) < Len(loc.deadends)

\* MazeCell::links / MazeCell::neighbors of every cell: each cell's links
\* are among its neighbors
LinksAdjacent(g) ==
    \A i \in 1..Len(g.cells) :
        g.cells[i].links \subseteq Range(CellNeighbors(g, g.cells[i]))

\* C15: after any sequence of generation algorithm and braid calls on a
\* grid that started without links, every cell's links set is a subset of
\* the cell's neighbor set
C15_LinksAdjacent == LinksAdjacent(grid)

\* braid has returned after a generation algorithm, on a connected maze
\* that now has a cycle
C15_Witness ==
    /\ braid_done
    /\ Connected(grid)
    /\ ~Acyclic(grid)
    /\ LinkPairs(grid) # {}

\* the grid with every links set emptied
ClearLinks(g) ==
    [g EXCEPT !.cells = [i \in 1..Len(g.cells) |-> [g.cells[i] EXCEPT !.links = {}]]]

\* C18: every step of a generation algorithm and of braid changes only
\* links sets: weights, in_solution flags, positions, adjacency fields, the
\* grid's dimensions and its cells are left as they are
C18_OnlyLinksChange == [][ClearLinks(grid') = ClearLinks(grid)]_vars

\* true_prims has linked two cells of a grid of four cells or more
C18_Witness ==
    /\ pc = "true_prims_loop"
    /\ Len(grid.cells) >= 4
    /\ Cardinality(LinkPairs(grid)) >= 2
    /\ \A i \in 1..Len(grid.cells) :
          grid.cells[i].weight = 0 /\ ~grid.cells[i].in_solution

\* every cell of the grid has a link
AllLinked(g) == \A i \in 1..Len(g.cells) : g.cells[i].links # {}

\* C30: on a grid in which every cell has a link, no step of
\* simplified_prims, true_prims or growing_tree changes the grid: no link is
\* added and every links set stays as it is
C30_NoOpOnLinkedGrid ==
    [][(/\ AllLinked(grid)
        /\ {pc, pc'} \cap {"simplified_prims_loop", "true_prims_loop",
                           "growing_tree_loop"} # {}) =>
          grid' = grid]_vars

\* simplified_prims, true_prims or growing_tree has returned after one
\* iteration, which removed the start cell, on a grid of four cells in
\* which every cell has a link
C30_Witness ==
    /\ pc = "done"
    /\ "removed" \in DOMAIN loc
    /\ loc.iters = 1
    /\ Active(loc) = {}
    /\ Len(grid.cells) >= 4
    /\ AllLinked(grid)

\* a dead end: a cell with fewer than two links
DeadEnd(g, p) == Cardinality(links_of(g, p)) < 2

\* the neighbors of p that p is not linked to
UnlinkedTo(g, p) == {n \in Range(neighbors(g, p)) : n \notin links_of(g, p)}

\* in a step of braid that adds a link: the neighbor linked to
BraidChoice == CHOOSE c \in links_of(grid', loc.deadends[loc.i]) : grid' = link(grid, loc.deadends[loc.i], c)

\* C26: when braid links a dead end that has a neighbor it is not linked
\* to which is a dead end itself, the neighbor it links to is a dead end
C26_BraidPrefersDeadEnds ==
    [][(/\ pc = "braid_loop"
        /\ grid' # grid
        /\ DeadEnd(grid, loc.deadends[loc.i])
        /\ \E n \in UnlinkedTo(grid, loc.deadends[loc.i]) : DeadEnd(grid, n)) =>
          DeadEnd(grid, BraidChoice)]_vars

\* C29: every link braid adds starts from a cell that has fewer than two
\* links when the link is added
C29_BraidLinksFromDeadEnd ==
    [][(pc = "braid_loop" /\ grid' # grid) =>
          DeadEnd(grid, loc.deadends[loc.i])]_vars


(***************************************************************************)
(* src/src/solver.rs: furthest_corners                                     *)
(***************************************************************************)
\* lines 86-95: the four corners of the grid
corners(g) ==
    <<Position_new(0, 0), Position_new(0, g.width - 1),
      Position_new(g.height - 1, 0), Position_new(g.height - 1, g.width - 1)>>

\* Iterator::max_by_key, and the last element after the stable
\* sort_by_key: the index of the last of the largest keys
last_max(keys) ==
    CHOOSE k \in 1..Len(keys) :
        /\ \A j \in 1..Len(keys) : keys[j] <= keys[k]
        /\ \A j \in (k + 1)..Len(keys) : keys[j] < keys[k]

\* the index of the first of the smallest keys
first_min(keys) ==
    CHOOSE k \in 1..Len(keys) :
        /\ \A j \in 1..Len(keys) : keys[k] <= keys[j]
        /\ \A j \in 1..(k - 1) : keys[k] < keys[j]

\* lines 112-115 with candidates[0] taken after the sort
furthest_corners_pick_first(candidates) ==
    LET c == candidates[first_min([k \in 1..Len(candidates) |-> candidates[k][3]])]
    IN <<c[1], c[2]>>

\* lines 112-115: the candidates are sorted by weight and the last is taken
furthest_corners_pick(candidates) ==
    LET c == candidates[last_max([k \in 1..Len(candidates) |-> candidates[k][3]])]
    IN <<c[1], c[2]>>

\* lines 97-110: the loop over corners[i..], giving the grid and the
\* candidates it ends with
RECURSIVE furthest_corners_loop(_, _, _)
furthest_corners_loop(g, i, candidates) ==
    IF i > Len(corners(g)) THEN [grid |-> g, candidates |-> candidates]
    ELSE LET g1 == dijkstra(g, corners(g)[i])
             ws == [k \in 1..Len(corners(g)) |-> weight_of(g1, corners(g)[k])]
             max == get(g1, corners(g)[last_max(ws)])[1]
         IN furthest_corners_loop(g1, i + 1,
                Append(candidates, <<corners(g)[i], max.pos, max.weight>>))

\* furthest_corners(grid): the grid it leaves and the pair it returns
furthest_corners(g) ==
    LET r == furthest_corners_loop(g, 1, <<>>)
    IN [grid |-> r.grid, result |-> furthest_corners_pick(r.candidates)]

\* a call furthest_corners(grid) after a generation algorithm or braid has
\* returned
FurthestCorners ==
    /\ pc = "done"
    /\ grid.kind = "rect"
    /\ LET r == furthest_corners(grid)
       IN /\ grid' = r.grid
          /\ loc' = [result |-> r.result]
    /\ pc' = "furthest_corners_done"

NextCorners == NextBraid \/ FurthestCorners

\* a fresh rectangular grid of at most MaxWalkCells cells
InitCorners ==
    /\ InitRect
    /\ Len(grid.cells) <= MaxWalkCells

SpecCorners == InitCorners /\ [][NextCorners]_vars

\* the largest link-graph distance between two corners
MaxCornerDistance(g) ==
    LET D == {HopCount(g, a, b) : a \in Range(corners(g)), b \in Range(corners(g))}
    IN CHOOSE m \in D : \A x \in D : x <= m

\* C12: on a rectangular grid holding a connected maze furthest_corners
\* returns two corners whose link-graph distance is the largest among all
\* pairs of corners; on a 1x1 grid it returns the same position twice
C12_FurthestCorners ==
    (pc = "furthest_corners_done" /\ Connected(grid)) =>
        /\ loc.result[1] \in Range(corners(grid))
        /\ loc.result[2] \in Range(corners(grid))
        /\ HopCount(grid, loc.result[1], loc.result[2]) = MaxCornerDistance(grid)
        /\ Len(grid.cells) = 1 => loc.result[1] = loc.result[2]

\* furthest_corners has returned on a connected maze with a cycle whose
\* corners are not all equally far apart, and the first corner is not in
\* the pair
C12_Witness ==
    /\ pc = "furthest_corners_done"
    /\ Connected(grid)
    /\ ~Acyclic(grid)
    /\ Position_new(0, 0) \notin {loc.result[1], loc.result[2]}
    /\ \E a \in Range(corners(grid)), b \in Range(corners(grid)) :
          a # b /\ HopCount(grid, a, b) < MaxCornerDistance(grid)

(***************************************************************************)
(* SpecQuery: a grid of any size, 0 included, is constructed, at most one  *)
(* link is made, and get, get_mut, contains, get_pos, neighbors and        *)
(* has_links are called with positions inside and outside the grid.        *)
(***************************************************************************)
\* the largest width and height of a rectangular grid, and the largest
\* number of rows of a polar grid, that are queried
MaxDim == 3
MaxRows == 4

QueryGrids ==
    {Grid_new(w, h) : <<w, h>> \in (0..MaxDim) \X (0..MaxDim)}
        \cup {PolarGrid_new(rows) : rows \in 0..MaxRows}

\* the largest number in a nonempty set of numbers
SetMax(S) == CHOOSE m \in S : \A x \in S : x <= m

\* the positions asked for: every row up to one past the last, every
\* column up to one past the last of the longest row
QueryPositions(g) ==
    IF g.kind = "rect"
    THEN {Position_new(r, c) : <<r, c>> \in (0..g.height) \X (0..g.width)}
    ELSE {Position_new(r, c) :
             <<r, c>> \in (0..g.rows) \X (0..SetMax(Range(g.column_counts)))}

\* src/src/data.rs, Grid::neighbors (lines 249-255): the index is computed
\* and looked up without a call of contains
Grid_neighbors_rev(g, pos) ==
    LET idx == pos.col + pos.row * g.width + 1
    IN IF idx \in 1..Len(g.cells) THEN Cell_neighbors(g.cells[idx]) ELSE <<>>

\* src/src/data.rs, Grid::has_links (lines 286-292)
Grid_has_links_rev(g, pos) ==
    LET idx == pos.col + pos.row * g.width + 1
    IN IF idx \in 1..Len(g.cells) THEN g.cells[idx].links # {} ELSE FALSE

InitQuery ==
    /\ grid \in QueryGrids
    /\ pc = "idle"
    /\ loc = <<>>

\* link(pos, other) for a cell and one of its neighbors, on a grid without
\* links
QueryLink ==
    /\ pc = "idle"
    /\ LinkPairs(grid) = {}
    /\ \E pos \in Contained(grid) :
          \E k \in 1..Len(neighbors(grid, pos)) :
             grid' = link(grid, pos, neighbors(grid, pos)[k])
    /\ UNCHANGED <<pc, loc>>

\* the accessors are called with pos
Query ==
    /\ pc = "idle"
    /\ \E pos \in QueryPositions(grid) :
          loc' = [pos |-> pos,
                  contains |-> contains(grid, pos),
                  get |-> get(grid, pos),
                  get_mut |-> get_mut(grid, pos),
                  get_pos |-> get_pos(grid, pos),
                  neighbors |-> neighbors(grid, pos),
                  has_links |-> has_links(grid, pos),
                  neighbors_rev |-> IF grid.kind = "rect"
                                    THEN Grid_neighbors_rev(grid, pos)
                                    ELSE neighbors(grid, pos),
                  has_links_rev |-> IF grid.kind = "rect"
                                    THEN Grid_has_links_rev(grid, pos)
                                    ELSE has_links(grid, pos)]
    /\ pc' = "queried"
    /\ UNCHANGED grid

NextQuery == QueryLink \/ Query

SpecQuery == InitQuery /\ [][NextQuery]_vars

\* C13: for every Grid::new(width, height) and PolarGrid::new(rows), size 0
\* included, contains(pos) is true exactly for the positions of the cells
\* in cells(), and for such a pos get and get_mut return the cell whose
\* position is pos
C13_ContainsMatchesCells ==
    pc = "queried" =>
        /\ loc.contains <=> loc.pos \in CellSet(grid)
        /\ loc.pos \in CellSet(grid) =>
              /\ is_some(loc.get) /\ loc.get[1].pos = loc.pos
              /\ loc.get_mut # 0 /\ grid.cells[loc.get_mut].pos = loc.pos

\* C14: for a position outside the grid get, get_mut and get_pos return
\* None, contains returns false, neighbors returns the empty list and
\* has_links returns false: no data of another cell is returned
C14_OutsideIsNone ==
    (pc = "queried" /\ loc.pos \notin CellSet(grid)) =>
        /\ loc.get = None /\ loc.get_mut = 0 /\ loc.get_pos = None
        /\ ~loc.contains
        /\ loc.neighbors = <<>> /\ ~loc.has_links
        /\ loc.neighbors_rev = <<>> /\ ~loc.has_links_rev

\* C16: in Grid::new(width, height) the cell at (row, col) has south =
\* (row+1, col) iff row < height-1, north = (row-1, col) iff row > 0, west =
\* (row, col-1) iff col > 0 and east = (row, col+1) iff col < width-1, each
\* absent otherwise, and neighbors() returns the present ones in the order
\* north, south, east, west
C16_CompassNeighbors ==
    (pc = "queried" /\ grid.kind = "rect" /\ loc.contains) =>
        LET c == loc.get[1]
            row == loc.pos.row
            col == loc.pos.col
            N == IF row > 0 THEN <<Position_new(row - 1, col)>> ELSE <<>>
            S == IF row < grid.height - 1 THEN <<Position_new(row + 1, col)>> ELSE <<>>
            E == IF col < grid.width - 1 THEN <<Position_new(row, col + 1)>> ELSE <<>>
            W == IF col > 0 THEN <<Position_new(row, col - 1)>> ELSE <<>>
        IN /\ c.north = N /\ c.south = S /\ c.east = E /\ c.west = W
           /\ loc.neighbors = N \o S \o E \o W

\* neighbors() was asked for a cell with four neighbors
C16_Witness ==
    /\ pc = "queried" /\ grid.kind = "rect" /\ loc.contains
    /\ Len(loc.neighbors) = 4
    /\ loc.pos = Position_new(1, 1)

\* the cells of ring r
Ring(g, r) == {i \in 1..Len(g.cells) : g.cells[i].pos.row = r}

\* C17: in PolarGrid::new(rows) ring 0 holds exactly one cell, each ring's
\* cell count is a whole multiple (>= 1) of the previous ring's, every cell
\* of a ring r >= 1 has a cw and a ccw neighbor in its own ring (wrapping
\* around) and exactly one inward neighbor in ring r-1, a cell's outward
\* list is exactly the set of cells whose inward neighbor it is, and for
\* rows = 4 the cell (2, 1) has exactly 5 neighbors
C17_PolarRings ==
    /\ (grid.kind = "polar" /\ pc = "idle") =>
        /\ Cardinality(Ring(grid, 0)) = 1
        /\ \A r \in 1..(grid.rows - 1) :
              /\ Cardinality(Ring(grid, r)) >= Cardinality(Ring(grid, r - 1))
              /\ Cardinality(Ring(grid, r)) % Cardinality(Ring(grid, r - 1)) = 0
        /\ \A i \in 1..Len(grid.cells) :
              LET c == grid.cells[i]
                  n == Cardinality(Ring(grid, c.pos.row))
              IN /\ c.pos.row >= 1 =>
                       /\ c.cw = <<Position_new(c.pos.row, (c.pos.col + 1) % n)>>
                       /\ c.ccw = <<Position_new(c.pos.row, (c.pos.col + n - 1) % n)>>
                       /\ c.cw[1] \in CellSet(grid) /\ c.ccw[1] \in CellSet(grid)
                       /\ Len(c.inward) = 1
                       /\ c.inward[1].row = c.pos.row - 1
                       /\ c.inward[1] \in CellSet(grid)
                 /\ Range(c.outward) =
                       {grid.cells[j].pos : j \in {k \in 1..Len(grid.cells) :
                                                     grid.cells[k].inward = <<c.pos>>}}
                 /\ Len(c.outward) = Cardinality(Range(c.outward))
    /\ (grid.kind = "polar" /\ pc = "queried" /\ grid.rows = 4
            /\ loc.pos = Position_new(2, 1)) =>
        Len(loc.neighbors) = 5

\* neighbors() was asked for the cell (2, 1) of PolarGrid::new(4), which
\* has two outward neighbors
C17_Witness ==
    /\ pc = "queried" /\ grid.kind = "polar" /\ grid.rows = 4
    /\ loc.pos = Position_new(2, 1)
    /\ Len(loc.neighbors) = 5
    /\ Len(loc.get[1].outward) = 2

(***************************************************************************)
(* SpecOutside: one or two link / unlink calls with any positions, inside  *)
(* or outside the grid; a call that panics ends the run.                   *)
(***************************************************************************)
\* MazeGrid::link, lines 38-51, for any two positions: the grid it leaves
\* and whether one of its two unwrap() calls panicked
link_call(g, pos, other) ==
    IF get_mut(g, pos) = 0 THEN [grid |-> g, panicked |-> TRUE]
    ELSE LET g1 == [g EXCEPT !.cells[get_mut(g, pos)] = Cell_link(@, other)]
         IN IF get_mut(g1, other) = 0 THEN [grid |-> g1, panicked |-> TRUE]
            ELSE [grid |-> [g1 EXCEPT !.cells[get_mut(g1, other)] = Cell_link(@, pos)],
                  panicked |-> FALSE]

\* MazeGrid::unlink, lines 53-66, for any two positions
unlink_call(g, pos, other) ==
    IF get_mut(g, pos) = 0 THEN [grid |-> g, panicked |-> TRUE]
    ELSE LET g1 == [g EXCEPT !.cells[get_mut(g, pos)] = Cell_unlink(@, other)]
         IN IF get_mut(g1, other) = 0 THEN [grid |-> g1, panicked |-> TRUE]
            ELSE [grid |-> [g1 EXCEPT !.cells[get_mut(g1, other)] = Cell_unlink(@, pos)],
                  panicked |-> FALSE]

InitOutside ==
    /\ grid \in {g \in QueryGrids : Len(g.cells) <= MaxMazeCells}
    /\ pc = "idle"
    /\ loc = <<>>

\* a call link(pos, other); `before` records the grid it was called on
LinkCall ==
    /\ pc \in {"idle", "returned"}
    /\ \E pos \in QueryPositions(grid), other \in QueryPositions(grid) :
          LET r == link_call(grid, pos, other)
          IN /\ grid' = r.grid
             /\ loc' = [op |-> "link", pos |-> pos, other |-> other, before |-> grid]
             /\ pc' = IF r.panicked THEN "panicked"
                      ELSE IF pc = "idle" THEN "returned" ELSE "done"

\* a call unlink(pos, other)
UnlinkCall ==
    /\ pc \in {"idle", "returned"}
    /\ \E pos \in QueryPositions(grid), other \in QueryPositions(grid) :
          LET r == unlink_call(grid, pos, other)
          IN /\ grid' = r.grid
             /\ loc' = [op |-> "unlink", pos |-> pos, other |-> other, before |-> grid]
             /\ pc' = IF r.panicked THEN "panicked"
                      ELSE IF pc = "idle" THEN "returned" ELSE "done"

NextOutside == LinkCall \/ UnlinkCall

SpecOutside == InitOutside /\ [][NextOutside]_vars

\* C19: a link(a, b) or unlink(a, b) call in which either position is
\* outside the grid fails without changing any cell's links set
C19_FailedLinkNoEffect ==
    (pc = "panicked" /\ ({loc.pos, loc.other} \ CellSet(grid) # {})) =>
        \A i \in 1..Len(grid.cells) :
            grid.cells[i].links = loc.before.cells[i].links

(***************************************************************************)
(* SpecLoops: hunt_and_kill, recursive_backtracker, iterative_backtracker, *)
(* simplified_prims, true_prims or growing_tree runs on a fresh grid.      *)
(***************************************************************************)
NextLoops == NextHuntAndKill \/ NextGrow

SpecLoops == InitGen /\ [][NextLoops]_vars

\* C20: on a grid with N cells and no links, whatever the random draws,
\* hunt_and_kill, recursive_backtracker, iterative_backtracker,
\* simplified_prims, true_prims and growing_tree run at most 2N iterations
\* of their main loop
C20_LoopBound ==
    "iters" \in DOMAIN loc => loc.iters <= 2 * Len(grid.cells)

\* an algorithm has returned after 2N - 1 iterations on a grid of six
\* cells or more
C20_Witness ==
    /\ pc = "done"
    /\ "iters" \in DOMAIN loc
    /\ Len(grid.cells) >= 6
    /\ loc.iters = 2 * Len(grid.cells) - 1

(***************************************************************************)
(* Grid::to_string (src/src/data/grid.rs).  A String is the sequence of   *)
(* its characters, each a string of length one.                           *)
(***************************************************************************)
\* the largest number of link / update_weight calls before to_string
MaxEdits == 2

RECURSIVE Concat(_)
Concat(ss) == IF ss = <<>> THEN <<>> ELSE Head(ss) \o Concat(Tail(ss))

Repeat(c, n) == [i \in 1..n |-> c]

\* format!("{}", n) of an unsigned integer: its decimal digits
RECURSIVE u32_fmt(_)
u32_fmt(n) ==
    LET digit == <<"0", "1", "2", "3", "4", "5", "6", "7", "8", "9">>
    IN IF n < 10 THEN <<digit[n + 1]>>
       ELSE u32_fmt(n \div 10) \o <<digit[(n % 10) + 1]>>

\* MazeCell::label
label(cell) == u32_fmt(cell.weight)

\* format!("{:^3}", s): s centered in a field of width 3, the odd space of
\* the padding on the right; a longer s is written whole
fmt_center3(s) ==
    IF Len(s) >= 3 THEN s
    ELSE Repeat(" ", (3 - Len(s)) \div 2) \o s
            \o Repeat(" ", (3 - Len(s)) - (3 - Len(s)) \div 2)

\* MazeCell::is_linked
is_linked(cell, other) == other.pos \in cell.links

\* Grid::to_string, lines 158-176: what one cell adds to `top`
to_string_top(g, row, col, display_labels) ==
    LET cell == get(g, Position_new(row, col))[1]
    IN (IF display_labels THEN fmt_center3(label(cell)) ELSE <<" ", " ", " ">>)
       \o (IF col < g.width - 1
           THEN IF is_linked(cell, get(g, Position_new(row, col + 1))[1])
                THEN <<" ">> ELSE <<"|">>
           ELSE <<"|">>)

\* Grid::to_string, lines 178-187: what one cell adds to `bot`
to_string_bot(g, row, col) ==
    LET cell == get(g, Position_new(row, col))[1]
    IN IF row < g.height - 1
       THEN IF is_linked(cell, get(g, Position_new(row + 1, col))[1])
            THEN <<" ", " ", " ", "+">> ELSE <<"-", "-", "-", "+">>
       ELSE <<"-", "-", "-", "+">>

\* Grid::to_string, lines 153-194: the two lines of one row
to_string_row(g, row, display_labels) ==
    <<"|">>
    \o Concat([c \in 1..g.width |-> to_string_top(g, row, c - 1, display_labels)])
    \o <<"\n">>
    \o <<"+">>
    \o Concat([c \in 1..g.width |-> to_string_bot(g, row, c - 1)])
    \o <<"\n">>

\* Grid::to_string
to_string(g, display_labels) ==
    <<"+">> \o Concat([c \in 1..g.width |-> <<"-", "-", "-", "+">>]) \o <<"\n">>
    \o Concat([r \in 1..g.height |-> to_string_row(g, r - 1, display_labels)])

(***************************************************************************)
(* SpecString: to_string on a rectangular grid of at most MaxWalkCells     *)
(* cells after at most MaxEdits calls of link (on neighbors) and           *)
(* update_weight.                                                          *)
(***************************************************************************)
\* the weights update_weight is called with: one, two, three and four
\* decimal digits
Weights == {2, 13, 456, 1000}

InitString ==
    /\ grid \in {g \in {Grid_new(w, h) : w \in 0..MaxDim, h \in 0..MaxDim} :
                    Len(g.cells) <= MaxWalkCells}
    /\ pc = "idle"
    /\ loc = [edits |-> 0]

StringLink ==
    /\ pc = "idle"
    /\ loc.edits < MaxEdits
    /\ \E a \in CellSet(grid) : \E b \in Range(neighbors(grid, a)) :
          grid' = link(grid, a, b)
    /\ loc' = [loc EXCEPT !.edits = @ + 1]
    /\ UNCHANGED pc

StringUpdateWeight ==
    /\ pc = "idle"
    /\ loc.edits < MaxEdits
    /\ \E a \in CellSet(grid), weight \in Weights :
          grid' = [grid EXCEPT !.cells[get_mut(grid, a)] =
                                    Cell_update_weight(@, weight)]
    /\ loc' = [loc EXCEPT !.edits = @ + 1]
    /\ UNCHANGED pc

Render ==
    /\ pc = "idle"
    /\ \E display_labels \in BOOLEAN :
          loc' = [edits |-> loc.edits, display_labels |-> display_labels,
                  output |-> to_string(grid, display_labels)]
    /\ pc' = "rendered"
    /\ UNCHANGED grid

NextString == StringLink \/ StringUpdateWeight \/ Render

SpecString == InitString /\ [][NextString]_vars

\* the lines of a String: the pieces that end with a line feed
RECURSIVE Lines(_)
Lines(s) ==
    IF s = <<>> THEN <<>>
    ELSE LET n == CHOOSE k \in 1..(Len(s) + 1) :
                    /\ k = Len(s) + 1 \/ s[k] = "\n"
                    /\ \A j \in 1..(k - 1) : s[j] # "\n"
         IN <<SubSeq(s, 1, n - 1)>> \o Lines(SubSeq(s, n + 1, Len(s)))

\* a weight centered in exactly 3 characters
Centered3(weight) ==
    LET s == u32_fmt(weight)
        pad == IF Len(s) < 3 THEN 3 - Len(s) ELSE 0
    IN Repeat(" ", pad \div 2) \o s \o Repeat(" ", pad - pad \div 2)

\* the walls: 2h+1 lines of 4w+1 characters, a closed outer border, " "
\* or "|" between horizontally adjacent cells and "   " or "---" between
\* vertically adjacent cells as they are linked or not
WallsDrawn(g, lines) ==
    /\ Len(lines) = 2 * g.height + 1
    /\ \A k \in 1..Len(lines) : Len(lines[k]) = 4 * g.width + 1
    /\ \A k \in 1..(4 * g.width + 1) :
          lines[1][k] = IF k % 4 = 1 THEN "+" ELSE "-"
    /\ \A r \in 0..(g.height - 1) :
          LET top == lines[2 * r + 2]
              bot == lines[2 * r + 3]
          IN /\ top[1] = "|"
             /\ bot[1] = "+"
             /\ \A c \in 0..(g.width - 1) :
                   LET here == Position_new(r, c)
                       east == Position_new(r, c + 1)
                       south == Position_new(r + 1, c)
                   IN /\ top[4 * c + 5] =
                            IF c < g.width - 1 /\ {here, east} \in LinkPairs(g)
                            THEN " " ELSE "|"
                      /\ SubSeq(bot, 4 * c + 2, 4 * c + 4) =
                            IF r < g.height - 1 /\ {here, south} \in LinkPairs(g)
                            THEN <<" ", " ", " ">> ELSE <<"-", "-", "-">>
                      /\ bot[4 * c + 5] = "+"

\* the cells: the weight centered in 3 characters, or three spaces
CellsDrawn(g, lines, display_labels) ==
    \A r \in 0..(g.height - 1), c \in 0..(g.width - 1) :
        SubSeq(lines[2 * r + 2], 4 * c + 2, 4 * c + 4) =
            IF display_labels
            THEN Centered3(get(g, Position_new(r, c))[1].weight)
            ELSE <<" ", " ", " ">>

\* C21: Grid.to_string draws a closed outer border, between horizontally
\* adjacent cells a space if they are linked and "|" otherwise, between
\* vertically adjacent cells three spaces if they are linked and "---"
\* otherwise, and in each cell its weight centered in 3 characters with
\* display_labels and three spaces without
C21_ToStringDrawsGrid ==
    pc = "rendered" =>
        /\ WallsDrawn(grid, Lines(loc.output))
        /\ CellsDrawn(grid, Lines(loc.output), loc.display_labels)

\* the same without labels, and with labels of at most three digits
C21_ToStringDrawsGridShortLabels ==
    (/\ pc = "rendered"
     /\ loc.display_labels =>
            \A i \in 1..Len(grid.cells) : grid.cells[i].weight < 1000) =>
        /\ WallsDrawn(grid, Lines(loc.output))
        /\ CellsDrawn(grid, Lines(loc.output), loc.display_labels)

(***************************************************************************)
(* SpecDepthFirst: growing_tree with last_selection and                    *)
(* iterative_backtracker run side by side from the same grid without links *)
(* and the same start cell.  grid and loc.gt are the grid and the locals   *)
(* of growing_tree, loc.ib_grid and loc.ib those of iterative_backtracker; *)
(* each step is one iteration of both loops with the same cell linked.     *)
(***************************************************************************)
depth_first_begin ==
    /\ pc = "start"
    /\ \E start \in random_pos(grid), r \in _make_initial(CellSet(grid)) :
          /\ start = r.initial
          /\ IF is_some(start)
             THEN /\ loc' = [gt |-> [alg |-> "growing_tree",
                                     selection_fn |-> "last_selection",
                                     active |-> <<start[1]>>, iters |-> 0,
                                     removed |-> {}],
                             ib |-> [alg |-> "iterative_backtracker",
                                     unvisited |-> r.unvisited,
                                     stack |-> <<r.initial[1]>>, iters |-> 0],
                             ib_grid |-> grid]
                  /\ pc' = "depth_first_loop"
             ELSE /\ loc' = [alg |-> "growing_tree"]
                  /\ pc' = "done"
    /\ UNCHANGED grid

\* one iteration of both loops, or the end of both
depth_first_step ==
    /\ pc = "depth_first_loop"
    /\ IF loc.gt.active = <<>> /\ loc.ib.stack = <<>>
       THEN /\ pc' = "done"
            /\ UNCHANGED <<grid, loc>>
       ELSE /\ loc.gt.active # <<>>
            /\ loc.ib.stack # <<>>
            /\ \E r \in growing_tree_iter(grid, loc.gt),
                  q \in iterative_backtracker_iter(loc.ib_grid, loc.ib) :
                  /\ r.grid = q.grid
                  /\ grid' = r.grid
                  /\ loc' = [gt |-> r.loc, ib |-> q.loc, ib_grid |-> q.grid]
                  /\ pc' = pc

NextDepthFirst == depth_first_begin \/ depth_first_step

SpecDepthFirst == InitGen /\ [][NextDepthFirst]_vars

\* C25: from the same grid without links and the same start cell,
\* growing_tree with last_selection extends at every step the cell on top
\* of iterative_backtracker's stack and has the same links to choose from,
\* so the two build the same mazes
C25_LastSelectionIsBacktracker ==
    pc = "depth_first_loop" =>
        /\ grid = loc.ib_grid
        /\ loc.gt.active = loc.ib.stack
        /\ loc.gt.active # <<>> =>
              /\ selection_fn(loc.gt.selection_fn, loc.gt.active) =
                    {Some(loc.ib.stack[Len(loc.ib.stack)])}
              /\ {[grid |-> r.grid, active |-> r.loc.active] :
                      r \in growing_tree_iter(grid, loc.gt)} =
                 {[grid |-> q.grid, active |-> q.loc.stack] :
                      q \in iterative_backtracker_iter(loc.ib_grid, loc.ib)}

\* both loops have backed up from a dead end to a cell below it on the
\* stack that has a neighbor without links
C25_Witness ==
    /\ pc = "depth_first_loop"
    /\ Len(grid.cells) >= 6
    /\ loc.gt.removed # {}
    /\ loc.gt.active # <<>>
    /\ unlinked_neighbors(grid, loc.gt.active[Len(loc.gt.active)]) # <<>>

(***************************************************************************)
(* SpecSolveAny: at most MaxCalls calls of dijkstra and solve, with start  *)
(* and target inside or outside the grid, and links between neighbors      *)
(* added before and between the calls (so that the weights and marks of   *)
(* earlier calls are stale).                                               *)
(***************************************************************************)
\* the positions of the grid and one position outside it, past the last row
AnyPositions(g) ==
    Contained(g) \cup {Position_new(IF g.kind = "rect" THEN g.height ELSE g.rows, 0)}

\* link(a, b) for a cell and one of its neighbors, before a call
AnyLink ==
    /\ pc = "idle"
    /\ loc.calls < MaxCalls
    /\ \E a \in Contained(grid) : \E b \in Range(neighbors(grid, a)) :
          grid' = link(grid, a, b)
    /\ grid' # grid
    /\ loc' = [loc EXCEPT !.last = [op |-> "link"]]
    /\ UNCHANGED pc

\* a call dijkstra(grid, start), start being any position
DijkstraAny ==
    /\ pc = "idle"
    /\ loc.calls < MaxCalls
    /\ \E start \in AnyPositions(grid) :
          /\ grid' = dijkstra(grid, start)
          /\ loc' = [calls |-> loc.calls + 1,
                     last |-> [op |-> "dijkstra", start |-> start]]
    /\ UNCHANGED pc

\* a call solve(grid, start, target), start and target being any positions
SolveAny ==
    /\ pc = "idle"
    /\ loc.calls < MaxCalls
    /\ \E start \in AnyPositions(grid), target \in AnyPositions(grid) :
          LET r == solve(grid, start, target) IN
          /\ grid' = r.grid
          /\ loc' = [calls |-> loc.calls + 1,
                     last |-> [op |-> "solve", start |-> start,
                               target |-> target, path |-> r.path,
                               fresh |-> Marked(grid) = {}]]
    /\ UNCHANGED pc

NextSolveAny == AnyLink \/ DijkstraAny \/ SolveAny

SpecSolveAny == InitSolve /\ [][NextSolveAny]_vars

\* C27: solve with a target that is not link-reachable from start, or is
\* outside the grid, returns after a walk of strictly decreasing weights,
\* whatever the links and the weights left by earlier calls; it does not
\* mark start, and it marks only cells link-connected to target
C27_UnreachableTarget ==
    [][(/\ loc'.calls = loc.calls + 1
        /\ loc'.last.op = "solve"
        /\ loc'.last.target \notin Reach(grid, {loc'.last.start})) =>
          \E new \in {Marked(grid') \ Marked(grid)} :
             /\ \A i \in 1..(Len(loc'.last.path) - 1) :
                   weight_of(grid', loc'.last.path[i + 1]) <
                      weight_of(grid', loc'.last.path[i])
             /\ loc'.last.start \notin new
             /\ new \subseteq Reach(grid, {loc'.last.target})
             /\ loc'.last.target \notin Contained(grid) => new = {}]_vars

\* solve has walked from an unreachable target over two cells or more,
\* along the weights an earlier call left
C27_Witness ==
    /\ loc.last.op = "solve"
    /\ loc.last.target \notin Reach(grid, {loc.last.start})
    /\ loc.last.start \in Contained(grid)
    /\ Len(loc.last.path) >= 2

\* C28: dijkstra changes nothing but the weights of the cells link-reachable
\* from start (nothing at all when start is outside the grid), and solve
\* changes nothing but those weights and in_solution flags
C28_SolverFrame ==
    [][loc'.calls = loc.calls + 1 =>
          \E reached \in {Reach(grid, {loc'.last.start})} :
             /\ Len(grid'.cells) = Len(grid.cells)
             /\ \A i \in 1..Len(grid.cells) :
                   /\ grid'.cells[i].links = grid.cells[i].links
                   /\ grid'.cells[i].pos = grid.cells[i].pos
                   /\ CellNeighbors(grid', grid'.cells[i]) =
                         CellNeighbors(grid, grid.cells[i])
                   /\ grid.cells[i].pos \notin reached =>
                         grid'.cells[i].weight = grid.cells[i].weight
                   /\ loc'.last.op = "dijkstra" =>
                         grid'.cells[i].in_solution = grid.cells[i].in_solution
             /\ (loc'.last.op = "dijkstra" /\ loc'.last.start \notin Contained(grid)) =>
                   grid' = grid]_vars

\* dijkstra has run from a cell of the grid, and a cell that is not
\* reachable from it has the weight an earlier call gave it
C28_Witness ==
    /\ loc.last.op = "dijkstra"
    /\ loc.calls = 2
    /\ loc.last.start \in Contained(grid)
    /\ \E p \in CellSet(grid) \ Reach(grid, {loc.last.start}) :
          weight_of(grid, p) > 0

====
